---- MODULE Spec2Model ----
(***************************************************************************)
(* A model of the MindfulMate emotion pipeline and session manager.        *)
(*                                                                         *)
(*   src/src/core/conversation_manager.py   ConversationManager            *)
(*   src/src/core/emotion_analyzer.py       TextEmotionAnalyzer,           *)
(*                                          MultimodalEmotionFusion        *)
(*   src/src/core/gemma_client.py           GemmaClient                    *)
(*                                                                         *)
(* Strings the code inspects character by character (texts, identifiers,   *)
(* labels returned by the generative model) are sequences of one-character *)
(* strings.  Enum members are written as their .value strings.  Floats are *)
(* fixed-point integers in units of 1/3000, so that k/5, k/6, the fusion   *)
(* weights 0.4 and 0.6 and the factor 0.8 are all exact.                   *)
(***************************************************************************)
EXTENDS Integers, Sequences, FiniteSets, TLC

VARIABLES
    max_history,      \* ConversationManager.max_history
    session_timeout,  \* ConversationManager.session_timeout (seconds)
    now,              \* the wall clock read by datetime.now()
    active_sessions,  \* ConversationManager.active_sessions: key -> context
    ctx,              \* the ConversationContext objects ever created, by identity
    nuuid,            \* number of uuid4() session ids handed out
    adds,             \* number of add_interaction calls made so far
    retired,          \* contexts that were replaced because they had expired
    op,               \* the call that was made last, with its arguments and result
    chat_pc,          \* where the request being handled is in chat_endpoint
    text_emotion,     \* chat_endpoint's text_emotion: <<>> before it is set
    voice_emotion,    \* chat_endpoint's voice_emotion: <<>> for None
    final_emotion,    \* chat_endpoint's final_emotion: <<>> before it is set
    requests          \* the chat requests that run concurrently: their local variables

mgrVars == <<max_history, session_timeout, now, active_sessions, ctx, nuuid,
             adds, retired, op>>

anaVars == <<chat_pc, text_emotion, voice_emotion, final_emotion>>

vars == <<mgrVars, anaVars, requests>>

----------------------------------------------------------------------------
(* Bounds of the model                                                      *)

MaxMaxHistory == 5    \* max_history ranges up to MaxMaxHistory where moods are followed
MaxRiskHistory == 3   \* max_history ranges up to MaxRiskHistory where all risks are followed
MaxAdds == 6          \* add_interaction calls in one behaviour
MaxCtx == 2           \* ConversationContext objects in one behaviour
MaxTime == 3          \* clock ticks in one behaviour
MaxSessionAdds == 2   \* add_interaction calls in one behaviour where sessions expire
MaxLongAdds == 16     \* add_interaction calls in one behaviour of a long session
LongSessionFill == 11 \* the first interactions of a long session, all alike
MaxLongClock == 7201  \* the latest clock reading in a long session (seconds)

----------------------------------------------------------------------------
(* Enumerations: emotion_analyzer.py                                        *)

EmotionState ==
    {"anxious", "depressed", "stressed", "angry", "happy", "calm", "confused", "excited"}

RiskLevel == {"low", "medium", "high", "crisis"}

\* An EmotionAnalysis value with the given emotion and risk; the other fields
\* are those of an analysis of the message called tag.
Analysis(emotion, risk, tag) ==
    [primary_emotion |-> emotion, confidence |-> 1500, risk_level |-> risk,
     emotional_indicators |-> <<tag>>, suggested_technique |-> "validation",
     intensity |-> "medium", patterns |-> <<>>]

----------------------------------------------------------------------------
(* Python helpers                                                           *)

\* s[-n:] for n >= 1
LastN(s, n) == IF Len(s) > n THEN SubSeq(s, Len(s) - n + 1, Len(s)) ELSE s

\* d[k] = v on a dict
DictSet(d, k, v) == [x \in DOMAIN d \cup {k} |-> IF x = k THEN v ELSE d[x]]

\* del d[k]
DictDel(d, k) == [x \in DOMAIN d \ {k} |-> d[x]]

\* x in s for a list s
InList(x, s) == \E i \in DOMAIN s : s[i] = x

----------------------------------------------------------------------------
(* ConversationManager                                                      *)

\* f"{user_id}:{session_id}"
ContextKey(user_id, session_id) == user_id \o <<":">> \o session_id

\* str(uuid.uuid4()): a fresh identifier
Uuid4(n) == <<"#", ToString(n)>>

NewContext(user_id, session_id) ==
    [user_id |-> user_id, session_id |-> session_id,
     conversation_history |-> <<>>, emotion_history |-> <<>>,
     risk_flags |-> <<>>, last_interaction |-> now, session_start |-> now,
     therapeutic_goals |-> <<>>]

\* the expiry test with >= for >
ExpiredAtTimeout(c) == now - ctx[c].last_interaction >= session_timeout

\* datetime.now() - context.last_interaction > timedelta(seconds=session_timeout)
Expired(c) == now - ctx[c].last_interaction > session_timeout

\* flag.startswith("session_"), on the flags the program writes
StartsWithSession(flag) ==
    flag \in {"session_crisis_detected", "session_persistent_negative_mood",
              "session_escalating_risk"}

risk_values == [r \in RiskLevel |->
    CASE r = "low" -> 1 [] r = "medium" -> 2 [] r = "high" -> 3 [] r = "crisis" -> 4]

\* negative_emotions without STRESSED
negative_emotions_short == {"depressed", "anxious"}

negative_emotions == {"depressed", "anxious", "stressed"}

\* negative_count: sum(1 for analysis in recent_emotions if analysis.primary_emotion in negative_emotions)
NegativeCount(recent_emotions) ==
    Cardinality({i \in DOMAIN recent_emotions :
                    recent_emotions[i].primary_emotion \in negative_emotions})

\* recent_emotions of _update_risk_assessment
RecentEmotions(emotion_history) ==
    IF Len(emotion_history) >= 5 THEN LastN(emotion_history, 5) ELSE emotion_history

\* Escalating with a strict comparison
EscalatingStrict(emotion_history) ==
    LET recent_risks == [i \in 1..3 |-> LastN(emotion_history, 3)[i].risk_level]
    IN  \A i \in 1..2 : risk_values[recent_risks[i]] < risk_values[recent_risks[i + 1]]

\* all(risk_values[r[i]] <= risk_values[r[i+1]] for i in range(len(r)-1)) on the last 3
Escalating(emotion_history) ==
    LET recent_risks == [i \in 1..3 |-> LastN(emotion_history, 3)[i].risk_level]
    IN  \A i \in 1..2 : risk_values[recent_risks[i]] <= risk_values[recent_risks[i + 1]]

\* _update_risk_assessment that keeps the flags of the previous call
UpdateRiskAssessmentKeeping(risk_flags, emotion_history, emotion_analysis) ==
    LET f1 == IF emotion_analysis.risk_level = "crisis"
              THEN Append(risk_flags, "session_crisis_detected") ELSE risk_flags
        f2 == IF NegativeCount(RecentEmotions(emotion_history)) >= 4
              THEN Append(f1, "session_persistent_negative_mood") ELSE f1
        f3 == IF Len(emotion_history) >= 3 /\ Escalating(emotion_history)
              THEN Append(f2, "session_escalating_risk") ELSE f2
    IN  f3

\* _update_risk_assessment: the new risk_flags
UpdateRiskAssessment(risk_flags, emotion_history, emotion_analysis) ==
    LET kept  == SelectSeq(risk_flags, LAMBDA f : ~StartsWithSession(f))
        f1 == IF emotion_analysis.risk_level = "crisis"
              THEN Append(kept, "session_crisis_detected") ELSE kept
        f2 == IF NegativeCount(RecentEmotions(emotion_history)) >= 4
              THEN Append(f1, "session_persistent_negative_mood") ELSE f1
        f3 == IF Len(emotion_history) >= 3 /\ Escalating(emotion_history)
              THEN Append(f2, "session_escalating_risk") ELSE f2
    IN  f3

goal_mapping ==
    [e \in {"anxious", "depressed", "stressed", "angry"} |->
        CASE e = "anxious" -> "anxiety_management"
          [] e = "depressed" -> "mood_improvement"
          [] e = "stressed" -> "stress_reduction"
          [] e = "angry" -> "anger_management"]

\* _update_therapeutic_goals that keeps the first three goals
UpdateTherapeuticGoalsKeepFirst(goals, emotion_analysis) ==
    LET emotion == emotion_analysis.primary_emotion
        g1 == IF emotion \in DOMAIN goal_mapping /\ ~InList(goal_mapping[emotion], goals)
              THEN Append(goals, goal_mapping[emotion]) ELSE goals
    IN  IF Len(g1) > 3 THEN SubSeq(g1, 1, 3) ELSE g1

\* _update_therapeutic_goals: the new therapeutic_goals
UpdateTherapeuticGoals(goals, emotion_analysis) ==
    LET emotion == emotion_analysis.primary_emotion
        g1 == IF emotion \in DOMAIN goal_mapping /\ ~InList(goal_mapping[emotion], goals)
              THEN Append(goals, goal_mapping[emotion]) ELSE goals
    IN  IF Len(g1) > 3 THEN LastN(g1, 3) ELSE g1

\* add_interaction that trims conversation_history only
AddedToOneTrim(context, user_input, ai_response, emotion_analysis) ==
    LET interaction == [timestamp |-> now, user |-> user_input, assistant |-> ai_response,
                        emotion |-> emotion_analysis.primary_emotion,
                        risk_level |-> emotion_analysis.risk_level,
                        confidence |-> emotion_analysis.confidence]
        ch == Append(context.conversation_history, interaction)
        eh == Append(context.emotion_history, emotion_analysis)
        ch2 == IF Len(ch) > max_history THEN LastN(ch, max_history) ELSE ch
    IN  [context EXCEPT !.conversation_history = ch2,
                        !.emotion_history = eh,
                        !.last_interaction = now,
                        !.risk_flags = UpdateRiskAssessment(context.risk_flags, eh, emotion_analysis),
                        !.therapeutic_goals = UpdateTherapeuticGoals(context.therapeutic_goals, emotion_analysis)]

\* the context after add_interaction(context, user_input, ai_response, emotion_analysis)
AddedTo(context, user_input, ai_response, emotion_analysis) ==
    LET interaction == [timestamp |-> now, user |-> user_input, assistant |-> ai_response,
                        emotion |-> emotion_analysis.primary_emotion,
                        risk_level |-> emotion_analysis.risk_level,
                        confidence |-> emotion_analysis.confidence]
        ch == Append(context.conversation_history, interaction)
        eh == Append(context.emotion_history, emotion_analysis)
        over == Len(ch) > max_history
        ch2 == IF over THEN LastN(ch, max_history) ELSE ch
        eh2 == IF over THEN LastN(eh, max_history) ELSE eh
    IN  [context EXCEPT !.conversation_history = ch2,
                        !.emotion_history = eh2,
                        !.last_interaction = now,
                        !.risk_flags = UpdateRiskAssessment(context.risk_flags, eh2, emotion_analysis),
                        !.therapeutic_goals = UpdateTherapeuticGoals(context.therapeutic_goals, emotion_analysis)]

\* the extended-session rule with >= 15 for > 15
ExtendedSessionFromFifteen(context) ==
    /\ now - context.session_start > 7200
    /\ Len(context.conversation_history) >= 15

\* session_duration > timedelta(hours=2) and len(conversation_history) > 15;
\* 2 hours = 7200 seconds
ExtendedSession(context) ==
    /\ now - context.session_start > 7200
    /\ Len(context.conversation_history) > 15

\* should_suggest_professional_help without the immediate-crisis rule
ShouldSuggestNoCrisisRule(context) ==
    \/ /\ InList("session_persistent_negative_mood", context.risk_flags)
       /\ InList("session_escalating_risk", context.risk_flags)
    \/ ExtendedSession(context)

\* should_suggest_professional_help(context)
ShouldSuggestProfessionalHelp(context) ==
    \/ InList("session_crisis_detected", context.risk_flags)
    \/ /\ InList("session_persistent_negative_mood", context.risk_flags)
       /\ InList("session_escalating_risk", context.risk_flags)
    \/ ExtendedSession(context)

----------------------------------------------------------------------------
(* Operations of the ConversationManager                                    *)

\* get_or_create_context(user_id, session_id) as any caller sees it; an absent
\* or empty session_id is <<>>; request is the chat request that calls, 0 for
\* a call made on its own
GetOrCreateContextCall(user_id, session_id, request) ==
    LET sid == IF session_id = <<>> THEN Uuid4(nuuid + 1) ELSE session_id
        key == ContextKey(user_id, sid)
        hit == key \in DOMAIN active_sessions
        live == hit /\ ~Expired(active_sessions[key])
        new == Len(ctx) + 1
    IN  /\ nuuid' = IF session_id = <<>> THEN nuuid + 1 ELSE nuuid
        /\ IF live
           THEN /\ UNCHANGED <<ctx, active_sessions, retired>>
                /\ op' = [name |-> "get_or_create_context", user_id |-> user_id,
                          session_id |-> session_id, result |-> active_sessions[key],
                          created |-> FALSE, request |-> request]
           ELSE /\ Len(ctx) < MaxCtx
                /\ ctx' = Append(ctx, NewContext(user_id, sid))
                /\ active_sessions' = DictSet(active_sessions, key, new)
                /\ retired' = IF hit THEN retired \cup {active_sessions[key]} ELSE retired
                /\ op' = [name |-> "get_or_create_context", user_id |-> user_id,
                          session_id |-> session_id, result |-> new, created |-> TRUE,
                          request |-> request]
        /\ UNCHANGED <<max_history, session_timeout, now, adds>>
        /\ UNCHANGED anaVars

\* get_or_create_context(user_id, session_id), called on its own
GetOrCreateContext(user_id, session_id) ==
    GetOrCreateContextCall(user_id, session_id, 0) /\ UNCHANGED requests

\* add_interaction(context, user_input, ai_response, emotion_analysis) on the
\* context c as any caller sees it
AddInteractionCall(c, user_input, ai_response, emotion_analysis, request) ==
    /\ adds' = adds + 1
    /\ ctx' = [ctx EXCEPT ![c] = AddedTo(ctx[c], user_input, ai_response, emotion_analysis)]
    /\ op' = [name |-> "add_interaction", context |-> c, analysis |-> emotion_analysis,
              before |-> ctx[c], request |-> request]
    /\ UNCHANGED <<max_history, session_timeout, now, active_sessions, nuuid, retired>>
    /\ UNCHANGED anaVars

\* add_interaction(context, user_input, ai_response, emotion_analysis) on the
\* context c, called on its own
AddInteraction(c, user_input, ai_response, emotion_analysis) ==
    AddInteractionCall(c, user_input, ai_response, emotion_analysis, 0) /\ UNCHANGED requests

\* should_suggest_professional_help(context) on the context c
SuggestProfessionalHelp(c) ==
    /\ op' = [name |-> "should_suggest_professional_help", context |-> c,
              result |-> ShouldSuggestProfessionalHelp(ctx[c])]
    /\ UNCHANGED <<max_history, session_timeout, now, active_sessions, ctx, nuuid, adds, retired>>
    /\ UNCHANGED <<anaVars, requests>>

\* the test of the sweep with <= for <
BeforeOrAtCutoff(c) == ctx[c].last_interaction <= now - session_timeout

\* context.last_interaction < cutoff_time, with
\* cutoff_time = datetime.now() - timedelta(seconds=self.session_timeout)
BeforeCutoff(c) == ctx[c].last_interaction < now - session_timeout

\* cleanup_expired_sessions()
CleanupExpiredSessions ==
    LET expired_sessions == {k \in DOMAIN active_sessions : BeforeCutoff(active_sessions[k])}
    IN  /\ active_sessions' = [k \in DOMAIN active_sessions \ expired_sessions |-> active_sessions[k]]
        /\ op' = [name |-> "cleanup_expired_sessions", result |-> Cardinality(expired_sessions)]
        /\ UNCHANGED <<max_history, session_timeout, now, ctx, nuuid, adds, retired>>
        /\ UNCHANGED <<anaVars, requests>>

\* time passes between calls
Tick ==
    /\ now < MaxTime
    /\ now' = now + 1
    /\ op' = [name |-> "tick"]
    /\ UNCHANGED <<max_history, session_timeout, active_sessions, ctx, nuuid, adds, retired>>
    /\ UNCHANGED <<anaVars, requests>>

\* the given number of seconds pass between calls
Wait(seconds) ==
    /\ now + seconds <= MaxLongClock
    /\ now' = now + seconds
    /\ op' = [name |-> "tick"]
    /\ UNCHANGED <<max_history, session_timeout, active_sessions, ctx, nuuid, adds, retired>>
    /\ UNCHANGED <<anaVars, requests>>

----------------------------------------------------------------------------
(* Words and keywords: emotion_analyzer.py                                  *)

\* the characters of the words the analyzers compare labels with
Chars(word) ==
    CASE word = "anxious" -> <<"a", "n", "x", "i", "o", "u", "s">>
      [] word = "depressed" -> <<"d", "e", "p", "r", "e", "s", "s", "e", "d">>
      [] word = "stressed" -> <<"s", "t", "r", "e", "s", "s", "e", "d">>
      [] word = "angry" -> <<"a", "n", "g", "r", "y">>
      [] word = "happy" -> <<"h", "a", "p", "p", "y">>
      [] word = "calm" -> <<"c", "a", "l", "m">>
      [] word = "confused" -> <<"c", "o", "n", "f", "u", "s", "e", "d">>
      [] word = "excited" -> <<"e", "x", "c", "i", "t", "e", "d">>
      [] word = "low" -> <<"l", "o", "w">>
      [] word = "medium" -> <<"m", "e", "d", "i", "u", "m">>
      [] word = "high" -> <<"h", "i", "g", "h">>
      [] word = "crisis" -> <<"c", "r", "i", "s", "i", "s">>
      [] word = "unknown" -> <<"u", "n", "k", "n", "o", "w", "n">>

\* str.lower() on one character
LowerChar(ch) ==
    CASE ch = "A" -> "a"
      [] ch = "B" -> "b"
      [] ch = "C" -> "c"
      [] ch = "D" -> "d"
      [] ch = "E" -> "e"
      [] ch = "F" -> "f"
      [] ch = "G" -> "g"
      [] ch = "H" -> "h"
      [] ch = "I" -> "i"
      [] ch = "J" -> "j"
      [] ch = "K" -> "k"
      [] ch = "L" -> "l"
      [] ch = "M" -> "m"
      [] ch = "N" -> "n"
      [] ch = "O" -> "o"
      [] ch = "P" -> "p"
      [] ch = "Q" -> "q"
      [] ch = "R" -> "r"
      [] ch = "S" -> "s"
      [] ch = "T" -> "t"
      [] ch = "U" -> "u"
      [] ch = "V" -> "v"
      [] ch = "W" -> "w"
      [] ch = "X" -> "x"
      [] ch = "Y" -> "y"
      [] ch = "Z" -> "z"
      [] OTHER -> ch

\* str.upper() on one character
UpperChar(ch) ==
    CASE ch = "a" -> "A"
      [] ch = "b" -> "B"
      [] ch = "c" -> "C"
      [] ch = "d" -> "D"
      [] ch = "e" -> "E"
      [] ch = "f" -> "F"
      [] ch = "g" -> "G"
      [] ch = "h" -> "H"
      [] ch = "i" -> "I"
      [] ch = "j" -> "J"
      [] ch = "k" -> "K"
      [] ch = "l" -> "L"
      [] ch = "m" -> "M"
      [] ch = "n" -> "N"
      [] ch = "o" -> "O"
      [] ch = "p" -> "P"
      [] ch = "q" -> "Q"
      [] ch = "r" -> "R"
      [] ch = "s" -> "S"
      [] ch = "t" -> "T"
      [] ch = "u" -> "U"
      [] ch = "v" -> "V"
      [] ch = "w" -> "W"
      [] ch = "x" -> "X"
      [] ch = "y" -> "Y"
      [] ch = "z" -> "Z"
      [] OTHER -> ch

\* self.crisis_keywords
crisis_keywords == <<
    <<"s", "u", "i", "c", "i", "d", "e">>,
    <<"k", "i", "l", "l", " ", "m", "y", "s", "e", "l", "f">>,
    <<"e", "n", "d", " ", "i", "t", " ", "a", "l", "l">>,
    <<"b", "e", "t", "t", "e", "r", " ", "o", "f", "f", " ", "d", "e", "a", "d">>,
    <<"s", "e", "l", "f", " ", "h", "a", "r", "m">>,
    <<"h", "u", "r", "t", " ", "m", "y", "s", "e", "l", "f">>,
    <<"c", "u", "t", "t", "i", "n", "g">>,
    <<"o", "v", "e", "r", "d", "o", "s", "e">>,
    <<"h", "o", "p", "e", "l", "e", "s", "s">>,
    <<"w", "o", "r", "t", "h", "l", "e", "s", "s">>,
    <<"n", "o", " ", "p", "o", "i", "n", "t">>,
    <<"c", "a", "n", "'", "t", " ", "g", "o", " ", "o", "n">>,
    <<"w", "a", "n", "t", " ", "t", "o", " ", "d", "i", "e">>,
    <<"e", "n", "d", " ", "m", "y", " ", "l", "i", "f", "e">>,
    <<"n", "o", "t", " ", "w", "o", "r", "t", "h", " ", "l", "i", "v", "i", "n", "g">>>>

\* the keys of self.emotion_keywords, in insertion order
emotion_keyword_order == <<"anxious", "depressed", "stressed", "angry", "happy">>

\* self.emotion_keywords
emotion_keywords ==
    [e \in {"anxious", "depressed", "stressed", "angry", "happy"} |->
        CASE e = "anxious" ->
               <<<<"w", "o", "r", "r", "i", "e", "d">>,
                 <<"n", "e", "r", "v", "o", "u", "s">>,
                 <<"s", "c", "a", "r", "e", "d">>,
                 <<"p", "a", "n", "i", "c">>,
                 <<"a", "n", "x", "i", "o", "u", "s">>,
                 <<"a", "f", "r", "a", "i", "d">>>>
          [] e = "depressed" ->
               <<<<"s", "a", "d">>,
                 <<"e", "m", "p", "t", "y">>,
                 <<"h", "o", "p", "e", "l", "e", "s", "s">>,
                 <<"w", "o", "r", "t", "h", "l", "e", "s", "s">>,
                 <<"d", "e", "p", "r", "e", "s", "s", "e", "d">>,
                 <<"d", "o", "w", "n">>>>
          [] e = "stressed" ->
               <<<<"o", "v", "e", "r", "w", "h", "e", "l", "m", "e", "d">>,
                 <<"p", "r", "e", "s", "s", "u", "r", "e">>,
                 <<"s", "t", "r", "e", "s", "s", "e", "d">>,
                 <<"b", "u", "r", "d", "e", "n">>,
                 <<"e", "x", "h", "a", "u", "s", "t", "e", "d">>>>
          [] e = "angry" ->
               <<<<"a", "n", "g", "r", "y">>,
                 <<"f", "u", "r", "i", "o", "u", "s">>,
                 <<"m", "a", "d">>,
                 <<"f", "r", "u", "s", "t", "r", "a", "t", "e", "d">>,
                 <<"r", "a", "g", "e">>,
                 <<"i", "r", "r", "i", "t", "a", "t", "e", "d">>>>
          [] e = "happy" ->
               <<<<"h", "a", "p", "p", "y">>,
                 <<"j", "o", "y">>,
                 <<"e", "x", "c", "i", "t", "e", "d">>,
                 <<"g", "o", "o", "d">>,
                 <<"g", "r", "e", "a", "t">>,
                 <<"w", "o", "n", "d", "e", "r", "f", "u", "l">>>>]

----------------------------------------------------------------------------
(* JSON values returned by the generative model                             *)
(*   t: "str", "num", "list", "null", or "missing" for an absent key        *)
(*   s: the characters of a string the analyzer lowercases                  *)
(*   w: a string the analyzer passes on or compares whole                   *)
(*   n: a number, in units of 1/3000                                        *)
(*   l: a list of strings                                                   *)

JStr(s) == [t |-> "str", s |-> s, w |-> "", n |-> 0, l |-> <<>>]
JWord(w) == [t |-> "str", s |-> <<>>, w |-> w, n |-> 0, l |-> <<>>]
JNum(n) == [t |-> "num", s |-> <<>>, w |-> "", n |-> n, l |-> <<>>]
JList(l) == [t |-> "list", s |-> <<>>, w |-> "", n |-> 0, l |-> l]
JNull == [t |-> "null", s |-> <<>>, w |-> "", n |-> 0, l |-> <<>>]
JMissing == [t |-> "missing", s |-> <<>>, w |-> "", n |-> 0, l |-> <<>>]

\* a parsed JSON document: an object with its members, or something else
JObject(fields) == [type |-> "object", fields |-> fields]

NoFields ==
    [primary_emotion |-> JMissing, confidence |-> JMissing, intensity |-> JMissing,
     risk_level |-> JMissing, crisis_indicators |-> JMissing,
     positive_indicators |-> JMissing, emotional_patterns |-> JMissing,
     suggested_approach |-> JMissing]

JOther(type) == [type |-> type, fields |-> NoFields]

----------------------------------------------------------------------------
(* GemmaClient.analyze_emotion_from_text                                    *)

\* _fallback_emotion_analysis()
FallbackEmotionAnalysis ==
    JObject([primary_emotion |-> JStr(Chars("unknown")), confidence |-> JNum(0),
             intensity |-> JWord("medium"), risk_level |-> JStr(Chars("low")),
             crisis_indicators |-> JList(<<>>), positive_indicators |-> JList(<<>>),
             emotional_patterns |-> JList(<<"analysis_unavailable">>),
             suggested_approach |-> JWord("validation")])

\* analyze_emotion_from_text: outcome.kind is "error" when the call to the
\* model raises, "not_json" when json.loads raises, "json" otherwise
AnalyzeEmotionFromText(outcome) ==
    IF outcome.kind = "json" THEN outcome.value ELSE FallbackEmotionAnalysis

----------------------------------------------------------------------------
(* TextEmotionAnalyzer                                                      *)

\* str.lower()
Lower(s) == [i \in DOMAIN s |-> LowerChar(s[i])]

\* keyword in text
Contains(text, keyword) ==
    \E i \in 1..(Len(text) - Len(keyword) + 1) :
        SubSeq(text, i, i + Len(keyword) - 1) = keyword

\* a detection that knows the first eight crisis keywords only
DetectCrisisKeywordsShortList(text) ==
    \E k \in 1..8 : Contains(text, crisis_keywords[k])

\* _detect_crisis_keywords
DetectCrisisKeywords(text) ==
    \E k \in DOMAIN crisis_keywords : Contains(text, crisis_keywords[k])

\* _string_to_emotion
StringToEmotion(emotion_str) ==
    IF \E e \in EmotionState : Chars(e) = Lower(emotion_str)
    THEN CHOOSE e \in EmotionState : Chars(e) = Lower(emotion_str)
    ELSE "calm"

\* _string_to_risk
StringToRisk(risk_str) ==
    IF \E r \in RiskLevel : Chars(r) = Lower(risk_str)
    THEN CHOOSE r \in RiskLevel : Chars(r) = Lower(risk_str)
    ELSE "low"

\* dict.get(key, default) on the members of an object
Get(fields, key, default) == IF fields[key].t = "missing" THEN default ELSE fields[key]

\* _suggest_text_technique
SuggestTextTechnique(emotion, risk, fields) ==
    LET suggested_approach == Get(fields, "suggested_approach", JWord(""))
    IN  IF risk = "crisis" THEN "crisis_intervention"
        ELSE IF risk = "high" THEN "safety_planning"
        ELSE IF /\ suggested_approach.t = "str"
                /\ suggested_approach.w \in {"cbt", "behavioral_activation", "validation",
                                             "crisis_intervention"}
             THEN suggested_approach.w
        ELSE CASE emotion = "anxious" -> "breathing_exercise"
               [] emotion = "depressed" -> "behavioral_activation"
               [] emotion = "stressed" -> "grounding_technique"
               [] emotion = "angry" -> "emotion_regulation"
               [] emotion = "confused" -> "clarification_questions"
               [] OTHER -> "validation"

\* sum(1 for keyword in keywords if keyword in text_lower)
KeywordHits(text_lower, keywords) ==
    Cardinality({k \in DOMAIN keywords : Contains(text_lower, keywords[k])})

\* emotion_scores[emotion] = score / len(keywords)
EmotionScore(text_lower, emotion) ==
    (KeywordHits(text_lower, emotion_keywords[emotion]) * 3000)
        \div Len(emotion_keywords[emotion])

\* max(emotion_scores, key=emotion_scores.get): the first key with the highest score
BestEmotion(text_lower) ==
    LET i == CHOOSE i \in DOMAIN emotion_keyword_order :
                /\ \A j \in DOMAIN emotion_keyword_order :
                      EmotionScore(text_lower, emotion_keyword_order[j])
                          <= EmotionScore(text_lower, emotion_keyword_order[i])
                /\ \A j \in 1..(i - 1) :
                      EmotionScore(text_lower, emotion_keyword_order[j])
                          < EmotionScore(text_lower, emotion_keyword_order[i])
    IN  emotion_keyword_order[i]

\* _fallback_text_analysis
FallbackTextAnalysis(text, crisis_detected) ==
    LET text_lower == Lower(text)
        primary_emotion == BestEmotion(text_lower)
    IN  [primary_emotion |-> primary_emotion,
         confidence |-> EmotionScore(text_lower, primary_emotion),
         risk_level |-> IF crisis_detected THEN "crisis" ELSE "low",
         emotional_indicators |-> <<"Keyword-based analysis">>,
         suggested_technique |-> "validation",
         intensity |-> "medium",
         patterns |-> <<"fallback_analysis">>]

\* a + b raises TypeError
PlusRaises(a, b) == a.t # b.t \/ a.t = "null"

\* not x
Falsy(x) ==
    \/ x.t = "null"
    \/ x.t = "list" /\ x.l = <<>>
    \/ x.t = "str" /\ x.s = <<>> /\ x.w = ""
    \/ x.t = "num" /\ x.n = 0

\* the exception that the try block of analyze_text_emotion raises first, or
\* "none": AttributeError for .get on something that is not a dict, for
\* .lower() on something that is not a str and for .append on something that
\* is not a list, TypeError for + on unlike operands
TextAnalysisError(gemma_analysis, crisis_detected) ==
    LET f == gemma_analysis.fields
        crisis_indicators == Get(f, "crisis_indicators", JList(<<>>))
        positive_indicators == Get(f, "positive_indicators", JList(<<>>))
    IN  IF gemma_analysis.type # "object" THEN "AttributeError"
        ELSE IF Get(f, "primary_emotion", JStr(Chars("calm"))).t # "str" THEN "AttributeError"
        ELSE IF ~crisis_detected /\ Get(f, "risk_level", JStr(Chars("low"))).t # "str"
             THEN "AttributeError"
        ELSE IF PlusRaises(crisis_indicators, positive_indicators) THEN "TypeError"
        ELSE IF crisis_detected /\ Falsy(crisis_indicators) /\ crisis_indicators.t # "list"
             THEN "AttributeError"
        ELSE "none"

\* the try block of analyze_text_emotion raises
TextAnalysisRaises(gemma_analysis, crisis_detected) ==
    TextAnalysisError(gemma_analysis, crisis_detected) # "none"

\* an except clause that handles TypeError only
HandledTypeErrorOnly(error) == error = "TypeError"

\* except Exception as e: every exception the try block raises is handled
Handled(error) == error \in {"AttributeError", "TypeError"}

\* the try block of analyze_text_emotion, with the override taken only when
\* the model reports no risk level
ModelTextAnalysisNoOverride(gemma_analysis, crisis_detected) ==
    LET f == gemma_analysis.fields
        primary_emotion == StringToEmotion(Get(f, "primary_emotion", JStr(Chars("calm"))).s)
        risk_level == IF crisis_detected /\ f.risk_level.t = "missing" THEN "crisis"
                      ELSE StringToRisk(Get(f, "risk_level", JStr(Chars("low"))).s)
        crisis_indicators == Get(f, "crisis_indicators", JList(<<>>))
        indicators == crisis_indicators.l \o Get(f, "positive_indicators", JList(<<>>)).l
    IN  [primary_emotion |-> primary_emotion,
         confidence |-> Get(f, "confidence", JNum(1500)).n,
         risk_level |-> risk_level,
         emotional_indicators |->
            IF crisis_detected /\ Falsy(crisis_indicators)
            THEN Append(indicators, "Crisis keywords detected") ELSE indicators,
         suggested_technique |-> SuggestTextTechnique(primary_emotion, risk_level, f),
         intensity |-> Get(f, "intensity", JWord("medium")).w,
         patterns |-> Get(f, "emotional_patterns", JList(<<>>)).l]

\* the try block of analyze_text_emotion when nothing raises; the members
\* confidence, intensity and emotional_patterns are passed on as they are, and
\* the model draws them as a number, a string and a list
ModelTextAnalysis(gemma_analysis, crisis_detected) ==
    LET f == gemma_analysis.fields
        primary_emotion == StringToEmotion(Get(f, "primary_emotion", JStr(Chars("calm"))).s)
        risk_level == IF crisis_detected THEN "crisis"
                      ELSE StringToRisk(Get(f, "risk_level", JStr(Chars("low"))).s)
        crisis_indicators == Get(f, "crisis_indicators", JList(<<>>))
        indicators == crisis_indicators.l \o Get(f, "positive_indicators", JList(<<>>)).l
    IN  [primary_emotion |-> primary_emotion,
         confidence |-> Get(f, "confidence", JNum(1500)).n,
         risk_level |-> risk_level,
         emotional_indicators |->
            IF crisis_detected /\ Falsy(crisis_indicators)
            THEN Append(indicators, "Crisis keywords detected") ELSE indicators,
         suggested_technique |-> SuggestTextTechnique(primary_emotion, risk_level, f),
         intensity |-> Get(f, "intensity", JWord("medium")).w,
         patterns |-> Get(f, "emotional_patterns", JList(<<>>)).l]

\* analyze_text_emotion(text, context) raises to its caller
AnalyzeTextEmotionRaises(text, outcome) ==
    LET error == TextAnalysisError(AnalyzeEmotionFromText(outcome),
                                   DetectCrisisKeywords(Lower(text)))
    IN  error # "none" /\ ~Handled(error)

\* what analyze_text_emotion(text, context) returns, given the outcome of the
\* model call
AnalyzeTextEmotion(text, outcome) ==
    LET crisis_detected == DetectCrisisKeywords(Lower(text))
        gemma_analysis == AnalyzeEmotionFromText(outcome)
    IN  IF TextAnalysisRaises(gemma_analysis, crisis_detected)
        THEN FallbackTextAnalysis(text, crisis_detected)
        ELSE ModelTextAnalysis(gemma_analysis, crisis_detected)

----------------------------------------------------------------------------
(* VoiceEmotionAnalyzer                                                     *)

\* the distinct elements of a list
Elements(list) == {list[i] : i \in DOMAIN list}

\* _calculate_intensity
CalculateIntensity(confidence) ==
    IF confidence > 2100 THEN "high" ELSE IF confidence > 1200 THEN "medium" ELSE "low"

\* _suggest_voice_technique
SuggestVoiceTechnique(emotion, risk) ==
    IF risk = "crisis" THEN "crisis_intervention"
    ELSE IF risk = "high" THEN "safety_planning"
    ELSE CASE emotion = "anxious" -> "breathing_exercise"
           [] emotion = "depressed" -> "behavioral_activation"
           [] emotion = "stressed" -> "grounding_technique"
           [] emotion = "angry" -> "emotion_regulation"
           [] emotion = "happy" -> "positive_reinforcement"
           [] emotion = "calm" -> "maintenance_check"
           [] OTHER -> "general_support"

\* the EmotionAnalysis that analyze_voice_features builds from the primary
\* emotion, its score, the risk level, the indicators and the patterns
VoiceAnalysis(primary_emotion, confidence, risk_level, indicators, patterns) ==
    [primary_emotion |-> primary_emotion, confidence |-> confidence,
     risk_level |-> risk_level, emotional_indicators |-> indicators,
     suggested_technique |-> SuggestVoiceTechnique(primary_emotion, risk_level),
     intensity |-> CalculateIntensity(confidence), patterns |-> patterns]

\* voice_features.get(key, default); voice_features is a function from the
\* keys that are present to their values.  pitch_mean, pitch_variance and
\* speech_rate are whole numbers; energy and avg_pause_duration are in
\* hundredths, so that 0.5 is 50 and 2.0 is 200.
Feature(voice_features, key, default) ==
    IF key \in DOMAIN voice_features THEN voice_features[key] ELSE default

\* A score is a Python float.  It is written as the nearest multiple of 1/3000
\* and the number of units in the last place by which the float differs from
\* the float of that decimal number.
Float(units) == [units |-> units, ulps |-> 0]

\* score += weight, in float arithmetic: 0.4 + 0.2 is 0.6000000000000001 and
\* 0.7 + 0.2 is 0.8999999999999999; the other sums of the weights that occur
\* are the floats of their decimal values
FloatAdd(score, weight) ==
    CASE score = Float(1200) /\ weight = 600 -> [units |-> 1800, ulps |-> 1]
      [] score = Float(2100) /\ weight = 600 -> [units |-> 2700, ulps |-> 0 - 1]
      [] OTHER -> [units |-> score.units + weight, ulps |-> 0]

\* a > b on floats
FloatGt(a, b) == a.units > b.units \/ (a.units = b.units /\ a.ulps > b.ulps)

\* score += weight if the condition holds
AddIf(score, condition, weight) == IF condition THEN FloatAdd(score, weight) ELSE score

\* min(score, 1.0)
MinOne(score) == IF FloatGt(score, Float(3000)) THEN Float(3000) ELSE score

\* _calculate_anxiety_score
CalculateAnxietyScore(pitch_mean, pitch_variance, speech_rate, energy) ==
    LET s1 == AddIf(Float(0), pitch_variance > 75, 900)
        s2 == AddIf(s1, speech_rate > 180, 900)
        s3 == AddIf(s2, pitch_mean > 200, 600)
        s4 == AddIf(s3, energy > 60 /\ (pitch_variance > 60 \/ speech_rate > 170), 600)
    IN  MinOne(s4)

\* _calculate_depression_score with 0.3 for 0.4 on very low energy
CalculateDepressionScoreLight(pitch_mean, energy, pause_duration, speech_rate) ==
    LET s1 == AddIf(Float(0), energy < 30, 900)
        s2 == AddIf(s1, pitch_mean < 120, 900)
        s3 == AddIf(s2, pause_duration > 150, 900)
        s4 == AddIf(s3, speech_rate < 120, 600)
    IN  MinOne(s4)

\* _calculate_depression_score
CalculateDepressionScore(pitch_mean, energy, pause_duration, speech_rate) ==
    LET s1 == AddIf(Float(0), energy < 30, 1200)
        s2 == AddIf(s1, pitch_mean < 120, 900)
        s3 == AddIf(s2, pause_duration > 150, 900)
        s4 == AddIf(s3, speech_rate < 120, 600)
    IN  MinOne(s4)

\* _calculate_stress_score
CalculateStressScore(speech_rate, pitch_variance, energy) ==
    LET s1 == AddIf(Float(0), speech_rate > 200 \/ speech_rate < 100, 900)
        s2 == AddIf(s1, pitch_variance > 80, 900)
        s3 == AddIf(s2, energy > 70 /\ pitch_variance > 60, 600)
        s4 == AddIf(s3, /\ 40 < energy /\ energy < 70
                        /\ (speech_rate > 190 \/ speech_rate < 110), 600)
    IN  MinOne(s4)

\* _calculate_anger_score
CalculateAngerScore(pitch_mean, energy, speech_rate) ==
    LET s1 == AddIf(Float(0), energy > 80, 1200)
        s2 == AddIf(s1, pitch_mean > 180, 900)
        s3 == AddIf(s2, speech_rate > 190, 900)
    IN  MinOne(s3)

\* _calculate_happiness_score
CalculateHappinessScore(pitch_mean, energy, speech_rate, pitch_variance) ==
    LET s1 == AddIf(Float(0), 60 < energy /\ energy < 90, 900)
        s2 == AddIf(s1, 160 < pitch_mean /\ pitch_mean < 200, 600)
        s3 == AddIf(s2, 150 < speech_rate /\ speech_rate < 180, 600)
        s4 == AddIf(s3, 40 < pitch_variance /\ pitch_variance < 70, 900)
    IN  MinOne(s4)

\* _calculate_calm_score
CalculateCalmScore(pitch_variance, speech_rate, energy, pause_duration) ==
    LET s1 == AddIf(Float(0), 25 < pitch_variance /\ pitch_variance < 55, 900)
        s2 == AddIf(s1, 140 < speech_rate /\ speech_rate < 170, 900)
        s3 == AddIf(s2, 40 < energy /\ energy < 70, 600)
        s4 == AddIf(s3, 30 < pause_duration /\ pause_duration < 80, 600)
    IN  MinOne(s4)

\* the keys of emotion_scores, in the order in which they are inserted
scored_emotions == <<"anxious", "depressed", "stressed", "angry", "happy", "calm">>

\* _calculate_emotion_scores
CalculateEmotionScores(pitch_mean, pitch_variance, speech_rate, energy, pause_duration) ==
    [e \in Elements(scored_emotions) |->
        CASE e = "anxious" -> CalculateAnxietyScore(pitch_mean, pitch_variance, speech_rate, energy)
          [] e = "depressed" -> CalculateDepressionScore(pitch_mean, energy, pause_duration, speech_rate)
          [] e = "stressed" -> CalculateStressScore(speech_rate, pitch_variance, energy)
          [] e = "angry" -> CalculateAngerScore(pitch_mean, energy, speech_rate)
          [] e = "happy" -> CalculateHappinessScore(pitch_mean, energy, speech_rate, pitch_variance)
          [] e = "calm" -> CalculateCalmScore(pitch_variance, speech_rate, energy, pause_duration)]

\* max(emotion_scores, key=emotion_scores.get) that returns the last of the
\* keys with the highest score
LastBestScored(emotion_scores) ==
    LET i == CHOOSE i \in DOMAIN scored_emotions :
                /\ \A j \in DOMAIN scored_emotions :
                      ~FloatGt(emotion_scores[scored_emotions[j]], emotion_scores[scored_emotions[i]])
                /\ \A j \in (i + 1)..Len(scored_emotions) :
                      FloatGt(emotion_scores[scored_emotions[i]], emotion_scores[scored_emotions[j]])
    IN  scored_emotions[i]

\* max(emotion_scores, key=emotion_scores.get): the first of the keys with the
\* highest score
BestScored(emotion_scores) ==
    LET i == CHOOSE i \in DOMAIN scored_emotions :
                /\ \A j \in DOMAIN scored_emotions :
                      ~FloatGt(emotion_scores[scored_emotions[j]], emotion_scores[scored_emotions[i]])
                /\ \A j \in 1..(i - 1) :
                      FloatGt(emotion_scores[scored_emotions[i]], emotion_scores[scored_emotions[j]])
    IN  scored_emotions[i]

\* _assess_voice_risk with the two HIGH rules ahead of the CRISIS rule
AssessVoiceRiskHighFirst(emotion_scores, voice_features) ==
    LET energy == Feature(voice_features, "energy", 50)
        speech_rate == Feature(voice_features, "speech_rate", 150)
        pause_duration == Feature(voice_features, "avg_pause_duration", 50)
        concerning_emotions == Cardinality({e \in DOMAIN emotion_scores :
                                              FloatGt(emotion_scores[e], Float(2100))})
    IN  IF FloatGt(emotion_scores["anxious"], Float(2400)) /\ pause_duration > 200
        THEN "high"
        ELSE IF concerning_emotions >= 2 THEN "high"
        ELSE IF /\ FloatGt(emotion_scores["depressed"], Float(2400))
                /\ energy < 20 /\ speech_rate < 100
        THEN "crisis"
        ELSE IF \E e \in {"depressed", "anxious", "stressed"} :
                    FloatGt(emotion_scores[e], Float(1800))
        THEN "medium"
        ELSE "low"

\* _assess_voice_risk counting the scores of anxious, depressed, stressed and
\* angry only
AssessVoiceRiskNegativeOnly(emotion_scores, voice_features) ==
    LET energy == Feature(voice_features, "energy", 50)
        speech_rate == Feature(voice_features, "speech_rate", 150)
        pause_duration == Feature(voice_features, "avg_pause_duration", 50)
        concerning_emotions == Cardinality({e \in {"anxious", "depressed", "stressed", "angry"} :
                                              FloatGt(emotion_scores[e], Float(2100))})
    IN  IF /\ FloatGt(emotion_scores["depressed"], Float(2400))
           /\ energy < 20 /\ speech_rate < 100
        THEN "crisis"
        ELSE IF FloatGt(emotion_scores["anxious"], Float(2400)) /\ pause_duration > 200
        THEN "high"
        ELSE IF concerning_emotions >= 2 THEN "high"
        ELSE IF \E e \in {"depressed", "anxious", "stressed"} :
                    FloatGt(emotion_scores[e], Float(1800))
        THEN "medium"
        ELSE "low"

\* _assess_voice_risk
AssessVoiceRisk(emotion_scores, voice_features) ==
    LET energy == Feature(voice_features, "energy", 50)
        speech_rate == Feature(voice_features, "speech_rate", 150)
        pause_duration == Feature(voice_features, "avg_pause_duration", 50)
        concerning_emotions == Cardinality({e \in DOMAIN emotion_scores :
                                              FloatGt(emotion_scores[e], Float(2100))})
    IN  IF /\ FloatGt(emotion_scores["depressed"], Float(2400))
           /\ energy < 20 /\ speech_rate < 100
        THEN "crisis"
        ELSE IF FloatGt(emotion_scores["anxious"], Float(2400)) /\ pause_duration > 200
        THEN "high"
        ELSE IF concerning_emotions >= 2 THEN "high"
        ELSE IF \E e \in {"depressed", "anxious", "stressed"} :
                    FloatGt(emotion_scores[e], Float(1800))
        THEN "medium"
        ELSE "low"

\* indicators.append(label) under an if / elif pair
AppendEither(indicators, first, first_label, second, second_label) ==
    IF first THEN Append(indicators, first_label)
    ELSE IF second THEN Append(indicators, second_label)
    ELSE indicators

\* _generate_voice_indicators
GenerateVoiceIndicators(voice_features) ==
    LET speech_rate == Feature(voice_features, "speech_rate", 150)
        energy == Feature(voice_features, "energy", 50)
        pitch_variance == Feature(voice_features, "pitch_variance", 50)
        pause_duration == Feature(voice_features, "avg_pause_duration", 50)
        i1 == AppendEither(<<>>, speech_rate > 190, "Rapid speech pattern",
                           speech_rate < 120, "Slow speech pattern")
        i2 == AppendEither(i1, energy < 30, "Low vocal energy",
                           energy > 80, "High vocal energy")
        i3 == AppendEither(i2, pitch_variance > 75, "Variable pitch patterns",
                           pitch_variance < 25, "Monotone speech")
    IN  AppendEither(i3, pause_duration > 150, "Extended pauses",
                     pause_duration < 20, "Minimal pauses")

\* _identify_voice_patterns
IdentifyVoicePatterns(voice_features) ==
    LET energy == Feature(voice_features, "energy", 50)
        speech_rate == Feature(voice_features, "speech_rate", 150)
        pitch_variance == Feature(voice_features, "pitch_variance", 50)
        p1 == IF energy < 30 /\ speech_rate < 120
              THEN <<"potential_depression_indicators">> ELSE <<>>
        p2 == IF speech_rate > 180 /\ pitch_variance > 70
              THEN Append(p1, "potential_anxiety_indicators") ELSE p1
    IN  IF (speech_rate > 200 \/ speech_rate < 100) /\ energy > 60
        THEN Append(p2, "potential_stress_indicators") ELSE p2

\* the emotion_scores that analyze_voice_features computes
VoiceScores(voice_features) ==
    CalculateEmotionScores(Feature(voice_features, "pitch_mean", 150),
                           Feature(voice_features, "pitch_variance", 50),
                           Feature(voice_features, "speech_rate", 150),
                           Feature(voice_features, "energy", 50),
                           Feature(voice_features, "avg_pause_duration", 50))

\* analyze_voice_features(voice_features); the confidence of the result is the
\* score of the primary emotion to the nearest 1/3000
AnalyzeVoiceFeatures(voice_features) ==
    LET emotion_scores == VoiceScores(voice_features)
        primary_emotion == BestScored(emotion_scores)
    IN  VoiceAnalysis(primary_emotion, emotion_scores[primary_emotion].units,
                      AssessVoiceRisk(emotion_scores, voice_features),
                      GenerateVoiceIndicators(voice_features),
                      IdentifyVoicePatterns(voice_features))

----------------------------------------------------------------------------
(* MultimodalEmotionFusion                                                  *)

risk_priorities == [r \in RiskLevel |->
    CASE r = "low" -> 0 [] r = "medium" -> 1 [] r = "high" -> 2 [] r = "crisis" -> 3]

\* max(risk_levels, key=...) that takes the text risk whatever the voice risk
MaxRiskTextOnly(voice_risk, text_risk) == text_risk

\* max([voice_risk, text_risk], key=lambda x: risk_priorities[x])
MaxRisk(voice_risk, text_risk) ==
    IF risk_priorities[text_risk] > risk_priorities[voice_risk] THEN text_risk ELSE voice_risk

\* a choice that prefers the voice analysis's technique
ChooseCombinedTechniqueVoiceFirst(emotion, risk, voice_analysis, text_analysis) ==
    IF risk = "crisis" THEN "crisis_intervention"
    ELSE IF risk = "high" THEN "safety_planning"
    ELSE voice_analysis.suggested_technique

\* _choose_combined_technique
ChooseCombinedTechnique(emotion, risk, voice_analysis, text_analysis) ==
    IF risk = "crisis" THEN "crisis_intervention"
    ELSE IF risk = "high" THEN "safety_planning"
    ELSE IF voice_analysis.suggested_technique = text_analysis.suggested_technique
         THEN voice_analysis.suggested_technique
    ELSE text_analysis.suggested_technique

\* intensity_values.get(intensity, 2)
IntensityValue(intensity) ==
    CASE intensity = "low" -> 1 [] intensity = "medium" -> 2 [] intensity = "high" -> 3
      [] OTHER -> 2

\* _determine_combined_intensity; combined_val in units of 1/1000
DetermineCombinedIntensity(voice_intensity, text_intensity, confidence) ==
    LET weighted == IntensityValue(voice_intensity) * 400 + IntensityValue(text_intensity) * 600
        combined_val == IF confidence > 2400 THEN (weighted * 11) \div 10
                        ELSE IF confidence < 1200 THEN (weighted * 9) \div 10
                        ELSE weighted
    IN  IF combined_val > 2500 THEN "high"
        ELSE IF combined_val > 1500 THEN "medium"
        ELSE "low"

\* the lists that list(set(a + b)) can be: the distinct elements in any order
SetOrders(elements) ==
    {p \in [1..Cardinality(elements) -> elements] : \A e \in elements : \E i \in DOMAIN p : p[i] = e}

\* fuse_emotions without the early return for an absent voice analysis
FuseEmotionsAlways(voice, text_analysis, combined_patterns) ==
    LET voice_analysis == IF voice = <<>>
                          THEN VoiceAnalysis("calm", 3000, "low", <<>>, <<>>) ELSE voice[1]
        weighted == (voice_analysis.confidence * 4 + text_analysis.confidence * 6) \div 10
        emotions_agree == voice_analysis.primary_emotion = text_analysis.primary_emotion
        combined_confidence == IF emotions_agree
                               THEN (IF weighted + 600 < 3000 THEN weighted + 600 ELSE 3000)
                               ELSE (weighted * 8) \div 10
        risk_level == MaxRisk(voice_analysis.risk_level, text_analysis.risk_level)
    IN  [primary_emotion |-> text_analysis.primary_emotion,
         confidence |-> IF combined_confidence > 900 THEN combined_confidence ELSE 900,
         risk_level |-> risk_level,
         emotional_indicators |-> voice_analysis.emotional_indicators
                                    \o text_analysis.emotional_indicators,
         suggested_technique |-> ChooseCombinedTechnique(text_analysis.primary_emotion,
                                    risk_level, voice_analysis, text_analysis),
         intensity |-> DetermineCombinedIntensity(voice_analysis.intensity,
                                    text_analysis.intensity, combined_confidence),
         patterns |-> combined_patterns]

\* fuse_emotions(voice_analysis, text_analysis); voice is <<>> for None and
\* <<analysis>> otherwise, combined_patterns is the order list(set(...)) gives
FuseEmotions(voice, text_analysis, combined_patterns) ==
    IF voice = <<>> THEN text_analysis
    ELSE LET voice_analysis == voice[1]
             weighted == (voice_analysis.confidence * 4 + text_analysis.confidence * 6) \div 10
             emotions_agree == voice_analysis.primary_emotion = text_analysis.primary_emotion
             primary_emotion == IF emotions_agree THEN voice_analysis.primary_emotion
                                ELSE text_analysis.primary_emotion
             combined_confidence == IF emotions_agree
                                    THEN (IF weighted + 600 < 3000 THEN weighted + 600 ELSE 3000)
                                    ELSE (weighted * 8) \div 10
             risk_level == MaxRisk(voice_analysis.risk_level, text_analysis.risk_level)
         IN  [primary_emotion |-> primary_emotion,
              confidence |-> IF combined_confidence > 900 THEN combined_confidence ELSE 900,
              risk_level |-> risk_level,
              emotional_indicators |-> voice_analysis.emotional_indicators
                                         \o text_analysis.emotional_indicators,
              suggested_technique |-> ChooseCombinedTechnique(primary_emotion, risk_level,
                                         voice_analysis, text_analysis),
              intensity |-> DetermineCombinedIntensity(voice_analysis.intensity,
                                         text_analysis.intensity, combined_confidence),
              patterns |-> combined_patterns]

----------------------------------------------------------------------------
(* One session, any number of interactions: the history window and the      *)
(* flags computed from it.                                                  *)

User1 == <<"a">>
Session1 == <<"s">>

InitManager(histories, timeouts) ==
    /\ max_history \in histories
    /\ session_timeout \in timeouts
    /\ now = 0
    /\ active_sessions = <<>>
    /\ ctx = <<>>
    /\ nuuid = 0
    /\ adds = 0
    /\ retired = {}
    /\ op = [name |-> "init"]
    /\ requests = <<>>
    /\ chat_pc = "idle"
    /\ text_emotion = <<>>
    /\ voice_emotion = <<>>
    /\ final_emotion = <<>>

\* the message number adds+1 arrives with the given emotion and risk
Interact(c, emotion, risk) ==
    /\ adds < MaxAdds
    /\ AddInteraction(c, ToString(adds + 1), "reply",
                      Analysis(emotion, risk, ToString(adds + 1)))

Init == InitManager(1..MaxRiskHistory, {3600})

Next ==
    \/ GetOrCreateContext(User1, Session1)
    \/ \E c \in DOMAIN ctx, e \in {"anxious", "happy"}, r \in RiskLevel : Interact(c, e, r)

Spec == Init /\ [][Next]_vars

InitMood == InitManager(1..MaxMaxHistory, {3600})

NextMood ==
    \/ GetOrCreateContext(User1, Session1)
    \/ \E c \in DOMAIN ctx, e \in {"depressed", "anxious", "stressed", "happy"} :
            Interact(c, e, "low")

SpecMood == InitMood /\ [][NextMood]_vars

InitFlags == InitManager(4..MaxMaxHistory, {3600})

NextFlags ==
    \/ GetOrCreateContext(User1, Session1)
    \/ \E c \in DOMAIN ctx, e \in {"anxious", "happy"}, r \in {"low", "crisis"} :
            Interact(c, e, r)

SpecFlags == InitFlags /\ [][NextFlags]_vars

----------------------------------------------------------------------------
(* Several users and sessions, a running clock and short timeouts: the      *)
(* session store.                                                           *)

\* the user ids and the session ids that callers pass
UserIds == {<<"a">>}
SessionIds == {<<"c">>}

InitSession == InitManager({2}, {1, 2})

NextSession ==
    \/ \E u \in UserIds, s \in SessionIds \cup {<<>>} : GetOrCreateContext(u, s)
    \/ \E c \in DOMAIN ctx : adds < MaxSessionAdds /\ Interact(c, "anxious", "crisis")
    \/ CleanupExpiredSessions
    \/ Tick

SpecSession == InitSession /\ [][NextSession]_vars

----------------------------------------------------------------------------
(* One session in which every emotion of the goal table occurs: the         *)
(* therapeutic goals.                                                       *)

InitGoals == InitManager({2}, {3600})

NextGoals ==
    \/ GetOrCreateContext(User1, Session1)
    \/ \E c \in DOMAIN ctx, e \in {"anxious", "depressed", "stressed", "angry", "happy"} :
            Interact(c, e, "low")

SpecGoals == InitGoals /\ [][NextGoals]_vars

----------------------------------------------------------------------------
(* One long session: more than 15 interactions over more than two hours,    *)
(* with should_suggest_professional_help called at any point.               *)

\* the last interactions of a long session carry one of these emotions and risks
LongSessionInputs == {<<"anxious", "low">>, <<"anxious", "high">>, <<"happy", "crisis">>}

\* the message number adds+1 of a long session: happy at low risk while the
\* session fills up, any of LongSessionInputs afterwards
InteractLong(c, emotion, risk) ==
    /\ adds < MaxLongAdds
    /\ IF adds < LongSessionFill THEN emotion = "happy" /\ risk = "low"
                                 ELSE <<emotion, risk>> \in LongSessionInputs
    /\ AddInteraction(c, ToString(adds + 1), "reply",
                      Analysis(emotion, risk, ToString(adds + 1)))

InitLong == InitManager({15, 16}, {86400})

NextLong ==
    \/ GetOrCreateContext(User1, Session1)
    \/ \E c \in DOMAIN ctx, e \in {"anxious", "happy"}, r \in RiskLevel : InteractLong(c, e, r)
    \/ \E c \in DOMAIN ctx : SuggestProfessionalHelp(c)
    \/ \E seconds \in {7200, 7201} : Wait(seconds)

SpecLong == InitLong /\ [][NextLong]_vars

----------------------------------------------------------------------------
(* One chat request after another through the analyzers and the fusion:     *)
(* chat_endpoint from analyze_text_emotion to fuse_emotions.                *)

MaxPad == 1           \* characters put before and after a keyword in a message

\* str.upper()
Upper(s) == [i \in DOMAIN s |-> UpperChar(s[i])]

\* str.capitalize() of a lower-case string
Capitalize(s) == [i \in DOMAIN s |-> IF i = 1 THEN UpperChar(s[i]) ELSE s[i]]

\* n characters that belong to no keyword
Pad(n) == [i \in 1..n |-> "x"]

\* the messages: every crisis keyword in lower case, upper case and capitalised,
\* alone and inside a longer run of characters; every crisis keyword without
\* its last character; messages with emotion keywords; the empty message
Messages ==
    {Pad(m) \o w \o Pad(n) :
        w \in UNION {{crisis_keywords[k], Upper(crisis_keywords[k]), Capitalize(crisis_keywords[k])} :
                        k \in DOMAIN crisis_keywords},
        m \in 0..MaxPad, n \in 0..MaxPad}
    \cup {SubSeq(crisis_keywords[k], 1, Len(crisis_keywords[k]) - 1) : k \in DOMAIN crisis_keywords}
    \cup {<<>>, Chars("happy"), Upper(Chars("angry")),
          Chars("stressed") \o <<" ">> \o Chars("anxious"),
          Chars("depressed") \o <<" ">> \o Chars("happy")}

\* a payload the model may answer with
BasePayload ==
    [primary_emotion |-> JStr(Chars("anxious")), confidence |-> JNum(2700),
     intensity |-> JWord("high"), risk_level |-> JStr(Chars("medium")),
     crisis_indicators |-> JList(<<>>), positive_indicators |-> JList(<<"coping">>),
     emotional_patterns |-> JList(<<"p1">>), suggested_approach |-> JWord("cbt")]

\* the values each member of the payload is varied over
MemberValues(key) ==
    CASE key = "primary_emotion" ->
            {JStr(Chars(e)) : e \in EmotionState}
                \cup {JStr(Upper(Chars("happy"))), JStr(Chars("unknown")), JNull, JNum(300), JMissing}
      [] key = "confidence" ->
            {JNum(0), JNum(900), JNum(1500), JNum(3000), JNum(4500), JNum(0 - 1500), JMissing}
      [] key = "risk_level" ->
            {JStr(Chars(r)) : r \in RiskLevel}
                \cup {JStr(Capitalize(Chars("high"))), JStr(Chars("unknown")), JNull, JMissing}
      [] key = "crisis_indicators" -> {JList(<<"ci">>), JNull, JMissing}
      [] key = "positive_indicators" -> {JList(<<>>), JNull, JMissing}
      [] key = "suggested_approach" -> {JWord("validation"), JWord("other"), JNull, JMissing}
      [] key = "intensity" -> {JWord("low"), JWord("medium"), JWord("severe"), JMissing}
      [] key = "emotional_patterns" -> {JList(<<>>), JList(<<"p2", "p1">>), JMissing}

\* the payloads: the base payload, and the base payload with one member changed
Payloads ==
    {BasePayload} \cup
    UNION {{[BasePayload EXCEPT ![key] = v] : v \in MemberValues(key)} : key \in DOMAIN BasePayload}

\* the outcomes of the call to the generative model: it raises, it answers
\* with something that is not JSON, with JSON that is not an object, or with
\* a JSON object
Outcomes ==
    {[kind |-> k, value |-> JOther("null")] : k \in {"error", "not_json"}}
    \cup {[kind |-> "json", value |-> JOther(t)] : t \in {"array", "string", "number", "null"}}
    \cup {[kind |-> "json", value |-> JObject(p)] : p \in Payloads}

\* the results of analyze_voice_features: the primary emotion is one of the
\* scored emotions and its confidence is a score, a sum of tenths cut at 1.0
VoiceAnalyses ==
    {VoiceAnalysis(e, c, r, <<"Rapid speech pattern">>,
                   IF e = "anxious" THEN <<"vp", "p1">> ELSE <<>>) :
        e \in {"anxious", "depressed", "happy"}, c \in {900, 2700, 3000}, r \in RiskLevel}

\* text_emotion = await text_analyzer.analyze_text_emotion(request.message, ...)
ChatAnalyzeText(message, outcome) ==
    /\ chat_pc = "idle"
    /\ IF AnalyzeTextEmotionRaises(message, outcome)
       THEN text_emotion' = <<>> /\ chat_pc' = "failed"
       ELSE text_emotion' = <<AnalyzeTextEmotion(message, outcome)>> /\ chat_pc' = "text"
    /\ op' = [name |-> "analyze_text_emotion", text |-> message, outcome |-> outcome]
    /\ UNCHANGED <<max_history, session_timeout, now, active_sessions, ctx, nuuid, adds, retired, requests>>
    /\ UNCHANGED <<voice_emotion, final_emotion>>

\* voice_emotion = voice_analyzer.analyze_voice_features(request.voice_features)
ChatAnalyzeVoice(analysis) ==
    /\ chat_pc = "text"
    /\ voice_emotion' = <<analysis>>
    /\ chat_pc' = "voice"
    /\ op' = [name |-> "analyze_voice_features"]
    /\ UNCHANGED <<max_history, session_timeout, now, active_sessions, ctx, nuuid, adds, retired, requests>>
    /\ UNCHANGED <<text_emotion, final_emotion>>

\* request.voice_features is absent or empty: voice_emotion = None
ChatNoVoice ==
    /\ chat_pc = "text"
    /\ voice_emotion' = <<>>
    /\ chat_pc' = "voice"
    /\ op' = [name |-> "no_voice_features"]
    /\ UNCHANGED <<max_history, session_timeout, now, active_sessions, ctx, nuuid, adds, retired, requests>>
    /\ UNCHANGED <<text_emotion, final_emotion>>

\* final_emotion = emotion_fusion.fuse_emotions(voice_emotion, text_emotion)
ChatFuse ==
    /\ chat_pc = "voice"
    /\ \E combined_patterns \in
            SetOrders(IF voice_emotion = <<>> THEN {}
                      ELSE Elements(voice_emotion[1].patterns \o text_emotion[1].patterns)) :
          final_emotion' = <<FuseEmotions(voice_emotion, text_emotion[1], combined_patterns)>>
    /\ chat_pc' = "fused"
    /\ op' = [name |-> "fuse_emotions"]
    /\ UNCHANGED <<max_history, session_timeout, now, active_sessions, ctx, nuuid, adds, retired, requests>>
    /\ UNCHANGED <<text_emotion, voice_emotion>>

\* the request is answered, with the analysis or with status 500 after an
\* exception; the analyzers and the fusion keep nothing of it
ChatReturn ==
    /\ chat_pc \in {"fused", "failed"}
    /\ chat_pc' = "idle"
    /\ text_emotion' = <<>>
    /\ voice_emotion' = <<>>
    /\ final_emotion' = <<>>
    /\ op' = [name |-> "init"]
    /\ UNCHANGED <<max_history, session_timeout, now, active_sessions, ctx, nuuid, adds, retired, requests>>

InitAnalyze == InitManager({20}, {3600})

NextAnalyze ==
    \/ /\ chat_pc = "idle"
       /\ \E message \in Messages, outcome \in Outcomes : ChatAnalyzeText(message, outcome)
    \/ /\ chat_pc = "text"
       /\ \E analysis \in VoiceAnalyses : ChatAnalyzeVoice(analysis)
    \/ ChatNoVoice
    \/ ChatFuse
    \/ ChatReturn

SpecAnalyze == InitAnalyze /\ [][NextAnalyze]_vars

----------------------------------------------------------------------------
(* One call of analyze_voice_features after another.                        *)

\* the values of the features: on each side of the thresholds of the rule
\* table, and on some of the thresholds
PitchMeans == {110, 120, 150, 170, 180, 190, 210}
PitchVariances == {15, 30, 50, 65, 75, 78, 90}
SpeechRates == {90, 100, 115, 130, 150, 160, 175, 185, 195, 210}
Energies == {10, 20, 25, 35, 50, 60, 65, 75, 85, 95}
PauseDurations == {10, 50, 100, 180, 200, 250}

FeatureKeys == {"pitch_mean", "pitch_variance", "speech_rate", "energy", "avg_pause_duration"}

VoiceFeatures(pitch_mean, pitch_variance, speech_rate, energy, pause_duration) ==
    [key \in FeatureKeys |->
        CASE key = "pitch_mean" -> pitch_mean
          [] key = "pitch_variance" -> pitch_variance
          [] key = "speech_rate" -> speech_rate
          [] key = "energy" -> energy
          [] key = "avg_pause_duration" -> pause_duration]

\* two feature mappings with any of their keys left out
PartialFeatures ==
    {[key \in keys |-> f[key]] :
        keys \in SUBSET FeatureKeys,
        f \in {VoiceFeatures(110, 15, 90, 10, 250), VoiceFeatures(210, 90, 210, 95, 10)}}

\* analyze_voice_features(voice_features)
CallAnalyzeVoiceFeatures(voice_features) ==
    /\ chat_pc = "idle"
    /\ voice_emotion' = <<AnalyzeVoiceFeatures(voice_features)>>
    /\ chat_pc' = "voice_analyzed"
    /\ op' = [name |-> "analyze_voice_features", voice_features |-> voice_features]
    /\ UNCHANGED <<max_history, session_timeout, now, active_sessions, ctx, nuuid, adds, retired, requests>>
    /\ UNCHANGED <<text_emotion, final_emotion>>

\* the analysis is handed to the caller; the analyzer keeps nothing of it
VoiceReturn ==
    /\ chat_pc = "voice_analyzed"
    /\ chat_pc' = "idle"
    /\ voice_emotion' = <<>>
    /\ op' = [name |-> "init"]
    /\ UNCHANGED <<max_history, session_timeout, now, active_sessions, ctx, nuuid, adds, retired, requests>>
    /\ UNCHANGED <<text_emotion, final_emotion>>

InitVoice == InitManager({20}, {3600})

NextVoice ==
    \/ /\ chat_pc = "idle"
       /\ \E pm \in PitchMeans, pv \in PitchVariances, sr \in SpeechRates,
             en \in Energies, pd \in PauseDurations :
               CallAnalyzeVoiceFeatures(VoiceFeatures(pm, pv, sr, en, pd))
    \/ /\ chat_pc = "idle"
       /\ \E voice_features \in PartialFeatures : CallAnalyzeVoiceFeatures(voice_features)
    \/ VoiceReturn

SpecVoice == InitVoice /\ [][NextVoice]_vars

----------------------------------------------------------------------------
(* GemmaClient.generate_therapeutic_response: the prompt is built before    *)
(* the try block, the model call and the parsing of its reply are inside it *)

\* the emotion context of a call: primary_emotion and risk_level are strings,
\* confidence is the value the caller passes, which analyze_text_emotion takes
\* from the model's answer as it is (a number, or a string, or null) and
\* fuse_emotions returns untouched when there is no voice analysis
EmotionContext(primary_emotion, risk_level, confidence) ==
    [primary_emotion |-> primary_emotion, risk_level |-> risk_level, confidence |-> confidence]

\* _build_therapeutic_prompt raises: f"{confidence:.2f}" is a ValueError for a
\* string and a TypeError for None; an absent confidence defaults to 0.0
BuildTherapeuticPromptError(emotion_context) ==
    CASE emotion_context.confidence.t \in {"num", "missing"} -> "none"
      [] emotion_context.confidence.t = "str" -> "ValueError"
      [] OTHER -> "TypeError"

\* fallback_responses of _fallback_therapeutic_response
fallback_responses ==
    [anxious |-> "I can hear that you're feeling anxious. That must be really difficult. Let's try a quick breathing exercise: breathe in for 4 counts, hold for 4, then breathe out for 4. Would you like to try this together?",
     depressed |-> "Thank you for sharing with me. It sounds like you're going through a tough time. Sometimes when we're feeling low, small activities can help. Is there one small thing you enjoyed doing before that we could think about?",
     stressed |-> "It sounds like you're under a lot of pressure right now. Let's try a grounding technique: can you name 5 things you can see around you right now? This can help bring you back to the present moment.",
     angry |-> "I can sense your frustration. Those feelings are valid. When we're angry, it can help to take some deep breaths or do some physical movement. What usually helps you when you're feeling this way?",
     unknown |-> "I'm here to listen and support you. It sounds like you're going through something difficult. Can you tell me more about what's bothering you right now? Sometimes talking it through can help."]

\* technique_mapping of _fallback_therapeutic_response
technique_mapping ==
    [anxious |-> "breathing_exercise", depressed |-> "behavioral_activation",
     stressed |-> "grounding_technique", angry |-> "emotion_regulation",
     unknown |-> "validation"]

\* a fallback that asks for professional help at crisis only
FallbackTherapeuticResponseCrisisOnly(emotion_context) ==
    LET emotion == emotion_context.primary_emotion
    IN  [response |-> IF emotion \in DOMAIN fallback_responses
                      THEN fallback_responses[emotion] ELSE fallback_responses["unknown"],
         suggested_technique |-> IF emotion \in DOMAIN technique_mapping
                                 THEN technique_mapping[emotion] ELSE "validation",
         follow_up_question |-> <<"What would be most helpful for you right now?">>,
         check_in_time |-> "4hours",
         professional_help_needed |-> emotion_context.risk_level = "crisis",
         crisis_resources_provided |-> FALSE]

\* _fallback_therapeutic_response
FallbackTherapeuticResponse(emotion_context) ==
    LET emotion == emotion_context.primary_emotion
    IN  [response |-> IF emotion \in DOMAIN fallback_responses
                      THEN fallback_responses[emotion] ELSE fallback_responses["unknown"],
         suggested_technique |-> IF emotion \in DOMAIN technique_mapping
                                 THEN technique_mapping[emotion] ELSE "validation",
         follow_up_question |-> <<"What would be most helpful for you right now?">>,
         check_in_time |-> "4hours",
         professional_help_needed |-> emotion_context.risk_level \in {"high", "crisis"},
         crisis_resources_provided |-> FALSE]

\* str.strip() on a sequence of characters
RECURSIVE LStrip(_)
LStrip(s) == IF s # <<>> /\ Head(s) = " " THEN LStrip(Tail(s)) ELSE s

RECURSIVE RStrip(_)
RStrip(s) == IF s # <<>> /\ s[Len(s)] = " " THEN RStrip(SubSeq(s, 1, Len(s) - 1)) ELSE s

Strip(s) == RStrip(LStrip(s))

\* _parse_therapeutic_response; the reply is a sequence of characters
ParseTherapeuticResponse(response_text) ==
    LET stripped == Strip(response_text)
        lower == Lower(stripped)
        has(word) == Contains(lower, word)
    IN  [response |-> stripped,
         suggested_technique |->
            IF has(<<"b", "r", "e", "a", "t", "h">>) THEN "breathing_exercise"
            ELSE IF has(<<"g", "r", "o", "u", "n", "d">>)
                    \/ has(<<"5", " ", "t", "h", "i", "n", "g", "s">>)
                 THEN "grounding_technique"
            ELSE IF has(<<"a", "c", "t", "i", "v", "i", "t", "y">>)
                    \/ has(<<"d", "o", " ", "s", "o", "m", "e", "t", "h", "i", "n", "g">>)
                 THEN "behavioral_activation"
            ELSE IF has(<<"c", "r", "i", "s", "i", "s">>) \/ has(<<"h", "e", "l", "p">>)
                 THEN "crisis_intervention"
            ELSE "validation",
         follow_up_question |-> <<>>,
         check_in_time |-> "4hours",
         professional_help_needed |->
            \/ has(<<"c", "r", "i", "s", "i", "s">>)
            \/ has(<<"p", "r", "o", "f", "e", "s", "s", "i", "o", "n", "a", "l">>)
            \/ has(<<"t", "h", "e", "r", "a", "p", "i", "s", "t">>)
            \/ has(<<"e", "m", "e", "r", "g", "e", "n", "c", "y">>),
         crisis_resources_provided |-> FALSE]

\* generate_therapeutic_response raises to its caller: what the prompt
\* building raises is outside the try block
GenerateTherapeuticResponseRaises(emotion_context, generation) ==
    BuildTherapeuticPromptError(emotion_context) # "none"

\* what generate_therapeutic_response returns when it returns; generation is
\* the outcome of _generate_with_config, an exception or the reply
GenerateTherapeuticResponse(emotion_context, generation) ==
    IF generation.kind = "error" THEN FallbackTherapeuticResponse(emotion_context)
    ELSE ParseTherapeuticResponse(generation.text)

\* the emotions a context names: the enumeration's values and "unknown"
ContextEmotions == EmotionState \cup {"unknown"}

\* the confidences a context carries
ContextConfidences == {JNum(0), JNum(1500), JNum(3000), JWord("high"), JNull, JMissing}

\* the replies of the model
Replies ==
    {<<" ", "B", "r", "e", "a", "t", "h", "e", " ">>,
     <<"g", "r", "o", "u", "n", "d">>,
     <<"a", "c", "t", "i", "v", "i", "t", "y">>,
     <<"h", "e", "l", "p">>,
     <<"t", "h", "e", "r", "a", "p", "i", "s", "t">>,
     <<"o", "k">>}

\* the outcomes of _generate_with_config
Generations ==
    {[kind |-> "error", text |-> <<>>]} \cup {[kind |-> "text", text |-> t] : t \in Replies}

\* ai_response = await gemma_client.generate_therapeutic_response(...)
CallGenerateTherapeuticResponse(emotion_context, generation) ==
    /\ chat_pc = "idle"
    /\ chat_pc' = "generated"
    /\ op' = [name |-> "generate_therapeutic_response",
              emotion_context |-> emotion_context, generation |-> generation,
              raised |-> GenerateTherapeuticResponseRaises(emotion_context, generation),
              result |-> GenerateTherapeuticResponse(emotion_context, generation)]
    /\ UNCHANGED <<max_history, session_timeout, now, active_sessions, ctx, nuuid, adds, retired, requests>>
    /\ UNCHANGED <<text_emotion, voice_emotion, final_emotion>>

\* the call is over; the client keeps nothing of it
GenerateReturn ==
    /\ chat_pc = "generated"
    /\ chat_pc' = "idle"
    /\ op' = [name |-> "init"]
    /\ UNCHANGED <<max_history, session_timeout, now, active_sessions, ctx, nuuid, adds, retired, requests>>
    /\ UNCHANGED <<text_emotion, voice_emotion, final_emotion>>

InitGenerate == InitManager({20}, {3600})

NextGenerate ==
    \/ /\ chat_pc = "idle"
       /\ \E e \in ContextEmotions, r \in RiskLevel, c \in ContextConfidences, g \in Generations :
             CallGenerateTherapeuticResponse(EmotionContext(e, r, c), g)
    \/ GenerateReturn

SpecGenerate == InitGenerate /\ [][NextGenerate]_vars

----------------------------------------------------------------------------
(* chat_endpoint under concurrency.  The handlers are coroutines on one     *)
(* event loop: a handler runs without interruption from one await to the    *)
(* next, and the two model calls are awaited through asyncio.to_thread, so  *)
(* a request is suspended twice and other handlers run in between.          *)

MaxChatRequests == 2  \* chat requests one client sends in one behaviour

\* the number of threads of the event loop's default executor, which
\* asyncio.to_thread submits to: min(32, cpu_count + 4), here for one CPU
max_workers == 5

\* the local variables of a request that has not started; generation is how
\* the model call of generate_therapeutic_response ended, count numbers the
\* requests the same client has sent
NewRequest ==
    [pc |-> "new", user_id |-> <<>>, session_id |-> <<>>, message |-> <<>>,
     voice_features |-> <<>>, context |-> 0, summary |-> 0, ticket |-> 0,
     final_emotion |-> <<>>, history |-> <<>>, generation |-> "none",
     response |-> <<>>, status |-> 0, count |-> 1]

\* the request waits for a model call submitted with asyncio.to_thread
Pending(r) == requests[r].pc \in {"text_pending", "generation_pending"}

\* the number the next submitted call gets: calls are served in this order
NextTicket ==
    LET tickets == {requests[r].ticket : r \in DOMAIN requests}
    IN  1 + CHOOSE t \in tickets : \A u \in tickets : u <= t

\* the call the request waits for runs on a thread of the executor: a call
\* runs as soon as fewer than max_workers calls submitted before it are
\* unfinished, and keeps its thread until it returns
HasWorker(r) ==
    Cardinality({q \in DOMAIN requests :
                    Pending(q) /\ requests[q].ticket < requests[r].ticket}) < max_workers

\* the confidence the text analysis carries: the keyword fallback computes a
\* number, the model path passes on the member of the answer as it is
TextConfidence(text, outcome) ==
    LET gemma_analysis == AnalyzeEmotionFromText(outcome)
    IN  IF TextAnalysisRaises(gemma_analysis, DetectCrisisKeywords(Lower(text)))
        THEN JNum(FallbackTextAnalysis(text, DetectCrisisKeywords(Lower(text))).confidence)
        ELSE Get(gemma_analysis.fields, "confidence", JNum(1500))

\* fuse_emotions raises: with a voice analysis the text confidence is
\* multiplied by 0.6, a TypeError for a string and for None
FuseEmotionsRaises(voice, text_confidence) ==
    voice # <<>> /\ text_confidence.t # "num"

\* the first step of chat_endpoint, up to the suspension in the model call of
\* analyze_text_emotion: get_or_create_context and get_conversation_summary
ChatGetContext(r, user_id, session_id, message, voice_features) ==
    /\ requests[r].pc = "new"
    /\ GetOrCreateContextCall(user_id, session_id, r)
    /\ requests' = [requests EXCEPT ![r] =
            [@ EXCEPT !.pc = "text_pending", !.user_id = user_id,
                      !.session_id = session_id, !.message = message,
                      !.voice_features = voice_features,
                      !.context = op'.result,
                      !.summary = Len(ctx'[op'.result].conversation_history),
                      !.ticket = NextTicket]]

\* the second step: the model call of analyze_text_emotion is over with the
\* given outcome; the text analysis, the voice analysis and the fusion
\* follow, then generate_therapeutic_response builds its prompt from the
\* context's history and suspends in its model call.  An exception ends the
\* request with status 500.
ChatAnalyze(r, outcome) ==
    LET request == requests[r]
        text_analysis == AnalyzeTextEmotion(request.message, outcome)
        text_confidence == TextConfidence(request.message, outcome)
        voice == IF request.voice_features = <<>> THEN <<>>
                 ELSE <<AnalyzeVoiceFeatures(request.voice_features[1])>>
    IN  /\ request.pc = "text_pending"
        /\ HasWorker(r)
        /\ IF FuseEmotionsRaises(voice, text_confidence)
           THEN requests' = [requests EXCEPT ![r] =
                    [@ EXCEPT !.pc = "failed", !.status = 500]]
           ELSE \E combined_patterns \in
                    SetOrders(IF voice = <<>> THEN {}
                              ELSE Elements(voice[1].patterns \o text_analysis.patterns)) :
                  LET final == FuseEmotions(voice, text_analysis, combined_patterns)
                      emotion_context ==
                          EmotionContext(final.primary_emotion, final.risk_level,
                                         IF voice = <<>> THEN text_confidence
                                         ELSE JNum(final.confidence))
                  IN  IF GenerateTherapeuticResponseRaises(emotion_context, <<>>)
                      THEN requests' = [requests EXCEPT ![r] =
                              [@ EXCEPT !.pc = "failed",
                                        !.final_emotion = <<final>>, !.status = 500]]
                      ELSE requests' = [requests EXCEPT ![r] =
                              [@ EXCEPT !.pc = "generation_pending",
                                        !.final_emotion = <<final>>,
                                        !.history = ctx[request.context].conversation_history,
                                        !.ticket = NextTicket]]
        /\ op' = [name |-> "analyze", request |-> r]
        /\ UNCHANGED <<max_history, session_timeout, now, active_sessions, ctx, nuuid, adds, retired>>
        /\ UNCHANGED anaVars

\* the ChatResponse of a request
ChatResponse(context, final, ai_response, professional_help) ==
    [response |-> ai_response.response, session_id |-> context.session_id,
     emotion_detected |-> final.primary_emotion, confidence |-> final.confidence,
     risk_level |-> final.risk_level, suggested_technique |-> final.suggested_technique,
     follow_up_question |-> ai_response.follow_up_question,
     professional_help_suggested |-> professional_help]

\* the last step: the model call of generate_therapeutic_response is over with
\* the given outcome; add_interaction and should_suggest_professional_help
\* follow on the context the request got in its first step, and the response
\* is returned
ChatRespond(r, generation) ==
    LET request == requests[r]
        c == request.context
        final == request.final_emotion[1]
        emotion_context == EmotionContext(final.primary_emotion, final.risk_level,
                                          JNum(final.confidence))
        ai_response == GenerateTherapeuticResponse(emotion_context, generation)
    IN  /\ request.pc = "generation_pending"
        /\ HasWorker(r)
        /\ AddInteractionCall(c, request.message, ai_response.response, final, r)
        /\ requests' = [requests EXCEPT ![r] =
              [@ EXCEPT !.pc = "done", !.status = 200, !.generation = generation.kind,
                        !.response = <<ChatResponse(ctx'[c], final, ai_response,
                                          ShouldSuggestProfessionalHelp(ctx'[c]))>>]]

\* end_session(session_id, user_id): DELETE /session/{session_id}
EndSession(user_id, session_id) ==
    LET context_key == ContextKey(user_id, session_id)
    IN  /\ IF context_key \in DOMAIN active_sessions
           THEN /\ active_sessions' = DictDel(active_sessions, context_key)
                /\ op' = [name |-> "end_session", status |-> 200]
           ELSE /\ UNCHANGED active_sessions
                /\ op' = [name |-> "end_session", status |-> 500]
        /\ UNCHANGED <<max_history, session_timeout, now, ctx, nuuid, adds, retired>>
        /\ UNCHANGED <<anaVars, requests>>

\* the client has its answer and sends its next request
ChatNextRequest(r) ==
    /\ requests[r].pc \in {"done", "failed"}
    /\ requests[r].count < MaxChatRequests
    /\ requests' = [requests EXCEPT ![r] = [NewRequest EXCEPT !.count = requests[r].count + 1]]
    /\ op' = [name |-> "next_request", request |-> r]
    /\ UNCHANGED <<max_history, session_timeout, now, active_sessions, ctx, nuuid, adds, retired>>
    /\ UNCHANGED anaVars

InitRequests(clients) ==
    /\ max_history = 20
    /\ session_timeout = 3600
    /\ now = 0
    /\ active_sessions = <<>>
    /\ ctx = <<>>
    /\ nuuid = 0
    /\ adds = 0
    /\ retired = {}
    /\ op = [name |-> "init"]
    /\ requests = [r \in clients |-> NewRequest]
    /\ chat_pc = "idle"
    /\ text_emotion = <<>>
    /\ voice_emotion = <<>>
    /\ final_emotion = <<>>

----------------------------------------------------------------------------
(* One client, one chat request after another, every kind of message,      *)
(* voice features and model outcome                                         *)

ChatMessages == {Upper(crisis_keywords[9]), Chars("happy")}

ChatVoiceFeatures == {<<>>, <<VoiceFeatures(150, 50, 150, 50, 50)>>}

ChatOutcomes ==
    {[kind |-> "error", value |-> JOther("null")],
     [kind |-> "json", value |-> JOther("array")],
     [kind |-> "json", value |-> JObject(BasePayload)],
     [kind |-> "json", value |-> JObject([BasePayload EXCEPT !.confidence = JWord("high")])]}

ChatGenerations ==
    {[kind |-> "error", text |-> <<>>], [kind |-> "text", text |-> <<"o", "k">>]}

InitChat == InitRequests({1})

NextChat ==
    \/ /\ requests[1].pc = "new"
       /\ \E m \in ChatMessages, v \in ChatVoiceFeatures : ChatGetContext(1, User1, Session1, m, v)
    \/ /\ requests[1].pc = "text_pending"
       /\ \E outcome \in ChatOutcomes : ChatAnalyze(1, outcome)
    \/ /\ requests[1].pc = "generation_pending"
       /\ \E generation \in ChatGenerations : ChatRespond(1, generation)
    \/ ChatNextRequest(1)

SpecChat == InitChat /\ [][NextChat]_vars

----------------------------------------------------------------------------
(* Two clients whose requests interleave, on one session or on two, with a  *)
(* session deletion and the passing of the session timeout in between       *)

ConcurrentSessions == {<<"s">>, <<"t">>}

ConcurrentOutcome == [kind |-> "json", value |-> JObject(BasePayload)]

ConcurrentGeneration == [kind |-> "text", text |-> <<"o", "k">>]

InitConcurrent == InitRequests({1, 2})

NextConcurrent ==
    \/ \E r \in DOMAIN requests, s \in ConcurrentSessions :
          ChatGetContext(r, User1, s, Chars("happy"), <<>>)
    \/ \E r \in DOMAIN requests : ChatAnalyze(r, ConcurrentOutcome)
    \/ \E r \in DOMAIN requests : ChatRespond(r, ConcurrentGeneration)
    \/ \E s \in ConcurrentSessions : EndSession(User1, s)
    \/ Wait(MaxLongClock)

SpecConcurrent == InitConcurrent /\ [][NextConcurrent]_vars

----------------------------------------------------------------------------
(* As many clients on one session as the executor has threads, and one      *)
(* client on another session.  The model calls made for the first session   *)
(* never return; those made for the other session always do.                *)

SessionA == <<"s">>

SessionB == <<"t">>

\* the client of session B
ClientB == max_workers + 1

ClientsA == 1..max_workers

SessionOf(r) == IF r = ClientB THEN SessionB ELSE SessionA

InitPool == InitRequests(ClientsA \cup {ClientB})

StartPool(r) == ChatGetContext(r, User1, SessionOf(r), Chars("happy"), <<>>)

AnalyzePool == ChatAnalyze(ClientB, ConcurrentOutcome)

RespondPool == ChatRespond(ClientB, ConcurrentGeneration)

NextPool ==
    \/ \E r \in DOMAIN requests : StartPool(r)
    \/ AnalyzePool
    \/ RespondPool

\* the request of session B is sent, and its model calls return once they
\* run on a thread
SpecPool ==
    /\ InitPool /\ [][NextPool]_vars
    /\ WF_vars(StartPool(ClientB))
    /\ WF_vars(AnalyzePool)
    /\ WF_vars(RespondPool)

----------------------------------------------------------------------------
(* Several users and sessions whose identifiers may hold a colon            *)

KeyUserIds == {<<"a">>, <<"a", ":", "b">>, <<"b">>}

KeySessionIds == {<<"c">>, <<"b", ":", "c">>}

\* the message a client sends on its pair of identifiers
MessageOf(user_id, session_id) == user_id \o <<"|">> \o session_id

\* the caller that has just got a context for its pair records an interaction
\* on it, as chat_endpoint does
InteractOn(user_id, session_id) ==
    /\ op.name = "get_or_create_context"
    /\ op.user_id = user_id /\ op.session_id = session_id
    /\ adds < MaxSessionAdds
    /\ AddInteraction(op.result, MessageOf(user_id, session_id), "reply",
                      Analysis("happy", "low", ToString(adds + 1)))

InitKeys == InitManager({20}, {3600})

NextKeys ==
    \/ \E u \in KeyUserIds, s \in KeySessionIds : GetOrCreateContext(u, s)
    \/ \E u \in KeyUserIds, s \in KeySessionIds : InteractOn(u, s)

SpecKeys == InitKeys /\ [][NextKeys]_vars

----------------------------------------------------------------------------
(* POST /analyze/text: the route analyze_text_emotion of main.py            *)

\* request.get("text", ""): the member of the request body, "" when absent
RequestText(text) == IF text.t = "missing" THEN JStr(<<>>) ELSE text

\* if not text
NotText(text) == Falsy(RequestText(text))

\* what the try block of the route raises, "none" when it returns: the
\* HTTPException for a text that is not given, the AttributeError of
\* text.lower() for a text that is not a string, and what the analysis raises
RouteError(text, outcome) ==
    IF NotText(text) THEN "HTTPException"
    ELSE IF RequestText(text).t # "str" THEN "AttributeError"
    ELSE IF AnalyzeTextEmotionRaises(RequestText(text).s, outcome)
         THEN TextAnalysisError(AnalyzeEmotionFromText(outcome),
                                DetectCrisisKeywords(Lower(RequestText(text).s)))
    ELSE "none"

\* the classes the except clause of the route catches: HTTPException is a
\* subclass of Exception like the others
CaughtByRoute(error) == error \in {"HTTPException", "AttributeError", "TypeError", "ValueError"}

\* the status of the answer: 200 with the analysis, 500 from the except
\* clause, and the status of an HTTPException that is not caught
RouteStatus(text, outcome) ==
    LET error == RouteError(text, outcome)
    IN  IF error = "none" THEN 200
        ELSE IF CaughtByRoute(error) THEN 500
        ELSE 400

\* text_analyzer.analyze_text_emotion is called
RouteAnalyzes(text) == ~NotText(text)

\* the texts of the request bodies: absent, empty, null, a number, and strings
RouteTexts ==
    {JMissing, JStr(<<>>), JNull, JNum(0), JNum(300), JStr(Chars("happy")),
     JStr(crisis_keywords[1])}

\* a POST /analyze/text request is answered
CallAnalyzeTextRoute(text, outcome) ==
    /\ chat_pc = "idle"
    /\ chat_pc' = "answered"
    /\ op' = [name |-> "analyze_text_route", text |-> text, outcome |-> outcome,
              status |-> RouteStatus(text, outcome),
              analyzed |-> RouteAnalyzes(text),
              analysis |-> IF RouteError(text, outcome) = "none"
                           THEN <<AnalyzeTextEmotion(RequestText(text).s, outcome)>> ELSE <<>>]
    /\ UNCHANGED <<max_history, session_timeout, now, active_sessions, ctx, nuuid, adds, retired, requests>>
    /\ UNCHANGED <<text_emotion, voice_emotion, final_emotion>>

\* the route keeps nothing of the request
RouteReturn ==
    /\ chat_pc = "answered"
    /\ chat_pc' = "idle"
    /\ op' = [name |-> "init"]
    /\ UNCHANGED <<max_history, session_timeout, now, active_sessions, ctx, nuuid, adds, retired, requests>>
    /\ UNCHANGED <<text_emotion, voice_emotion, final_emotion>>

InitRoute == InitManager({20}, {3600})

NextRoute ==
    \/ /\ chat_pc = "idle"
       /\ \E text \in RouteTexts, outcome \in Outcomes : CallAnalyzeTextRoute(text, outcome)
    \/ RouteReturn

SpecRoute == InitRoute /\ [][NextRoute]_vars

----------------------------------------------------------------------------
(* CrisisDetector of therapeutic/crisis_detection.py                        *)

\* the crisis types that have patterns, in the order of self.crisis_patterns
CrisisTypes == <<"suicidal_ideation", "self_harm", "severe_depression", "panic_attack">>

\* self.crisis_patterns
crisis_patterns ==
    [crisis_type \in {CrisisTypes[i] : i \in DOMAIN CrisisTypes} |->
        CASE crisis_type = "suicidal_ideation" ->
            [keywords |-> <<
                <<"s", "u", "i", "c", "i", "d", "e">>,
                <<"k", "i", "l", "l", " ", "m", "y", "s", "e", "l", "f">>,
                <<"e", "n", "d", " ", "i", "t", " ", "a", "l", "l">>,
                <<"w", "a", "n", "t", " ", "t", "o", " ", "d", "i", "e">>,
                <<"b", "e", "t", "t", "e", "r", " ", "o", "f", "f", " ", "d", "e", "a", "d">>,
                <<"e", "n", "d", " ", "m", "y", " ", "l", "i", "f", "e">>,
                <<"n", "o", "t", " ", "w", "o", "r", "t", "h", " ", "l", "i", "v", "i", "n", "g">>,
                <<"s", "u", "i", "c", "i", "d", "e", " ", "p", "l", "a", "n">>,
                <<"w", "a", "y", "s", " ", "t", "o", " ", "d", "i", "e">>>>,
             phrases |-> <<
                <<"i", " ", "w", "a", "n", "t", " ", "t", "o", " ", "d", "i", "e">>,
                <<"i", " ", "s", "h", "o", "u", "l", "d", " ", "d", "i", "e">>,
                <<"k", "i", "l", "l", " ", "m", "e">>,
                <<"e", "n", "d", " ", "i", "t", " ", "a", "l", "l">>,
                <<"c", "a", "n", "'", "t", " ", "g", "o", " ", "o", "n">>,
                <<"n", "o", " ", "r", "e", "a", "s", "o", "n", " ", "t", "o", " ", "l", "i", "v", "e">>>>,
             urgency |-> "immediate"]
          [] crisis_type = "self_harm" ->
            [keywords |-> <<
                <<"h", "u", "r", "t", " ", "m", "y", "s", "e", "l", "f">>,
                <<"c", "u", "t", " ", "m", "y", "s", "e", "l", "f">>,
                <<"s", "e", "l", "f", " ", "h", "a", "r", "m">>,
                <<"c", "u", "t", "t", "i", "n", "g">>,
                <<"b", "u", "r", "n", " ", "m", "y", "s", "e", "l", "f">>,
                <<"p", "u", "n", "c", "h", " ", "w", "a", "l", "l">>,
                <<"h", "a", "r", "m", " ", "m", "y", "s", "e", "l", "f">>>>,
             phrases |-> <<
                <<"w", "a", "n", "t", " ", "t", "o", " ", "h", "u", "r", "t", " ", "m", "y", "s", "e", "l", "f">>,
                <<"c", "u", "t", "t", "i", "n", "g", " ", "h", "e", "l", "p", "s">>,
                <<"p", "a", "i", "n", " ", "m", "a", "k", "e", "s", " ", "i", "t", " ", "b", "e", "t", "t", "e", "r">>>>,
             urgency |-> "urgent"]
          [] crisis_type = "severe_depression" ->
            [keywords |-> <<
                <<"h", "o", "p", "e", "l", "e", "s", "s">>,
                <<"w", "o", "r", "t", "h", "l", "e", "s", "s">>,
                <<"u", "s", "e", "l", "e", "s", "s">>,
                <<"b", "u", "r", "d", "e", "n">>,
                <<"e", "m", "p", "t", "y">>,
                <<"n", "u", "m", "b">>,
                <<"v", "o", "i", "d">>,
                <<"p", "o", "i", "n", "t", "l", "e", "s", "s">>>>,
             phrases |-> <<
                <<"n", "o", "t", "h", "i", "n", "g", " ", "m", "a", "t", "t", "e", "r", "s">>,
                <<"n", "o", " ", "p", "o", "i", "n", "t">>,
                <<"c", "o", "m", "p", "l", "e", "t", "e", "l", "y", " ", "h", "o", "p", "e", "l", "e", "s", "s">>,
                <<"t", "o", "t", "a", "l", " ", "f", "a", "i", "l", "u", "r", "e">>,
                <<"e", "v", "e", "r", "y", "o", "n", "e", " ", "h", "a", "t", "e", "s", " ", "m", "e">>>>,
             urgency |-> "monitor"]
          [] crisis_type = "panic_attack" ->
            [keywords |-> <<
                <<"p", "a", "n", "i", "c", " ", "a", "t", "t", "a", "c", "k">>,
                <<"c", "a", "n", "'", "t", " ", "b", "r", "e", "a", "t", "h", "e">>,
                <<"h", "e", "a", "r", "t", " ", "r", "a", "c", "i", "n", "g">>,
                <<"c", "h", "e", "s", "t", " ", "p", "a", "i", "n">>,
                <<"d", "i", "z", "z", "y">>,
                <<"d", "y", "i", "n", "g">>>>,
             phrases |-> <<
                <<"h", "a", "v", "i", "n", "g", " ", "a", " ", "p", "a", "n", "i", "c", " ", "a", "t", "t", "a", "c", "k">>,
                <<"c", "a", "n", "'", "t", " ", "c", "a", "t", "c", "h", " ", "m", "y", " ", "b", "r", "e", "a", "t", "h">>,
                <<"f", "e", "e", "l", " ", "l", "i", "k", "e", " ", "d", "y", "i", "n", "g">>,
                <<"h", "e", "a", "r", "t", " ", "p", "o", "u", "n", "d", "i", "n", "g">>>>,
             urgency |-> "urgent"]]

\* max(a, b)
Max(a, b) == IF a >= b THEN a ELSE b

\* min(a, b) of two scores
MinScore(a, b) == IF a <= b THEN a ELSE b

\* sum(1 for entry in entries if entry in text)
Matches(entries, text) == Cardinality({i \in DOMAIN entries : Contains(text, entries[i])})

\* _calculate_crisis_score, in units of 1/3000: 0.3 is 900, 0.5 is 1500. The
\* float products that are compared or returned are 1 * 0.3 = 0.3,
\* 2 * 0.3 = 0.6 and n * 0.3 > 0.8 for n >= 3, and the halves, so the units
\* order and equal them as the floats do
CalculateCrisisScore(text, patterns) ==
    LET keyword_matches == Matches(patterns.keywords, text)
        keyword_score == MinScore(keyword_matches * 900, 2400)
        phrase_matches == Matches(patterns.phrases, text)
        phrase_score == MinScore(phrase_matches * 1500, 3000)
    IN  Max(keyword_score, phrase_score)

\* _urgency_priority
UrgencyPriority(urgency) ==
    CASE urgency = "monitor" -> 1
      [] urgency = "urgent" -> 2
      [] urgency = "immediate" -> 3
      [] OTHER -> 0

\* a threshold that a score of 0.3 reaches
OverThresholdInclusive(score) == score >= 900

\* score > 0.3
OverThreshold(score) == score > 900

\* the entries detect_crisis appends for the crisis types, in their order
RECURSIVE TextCrises(_, _)
TextCrises(text_lower, n) ==
    IF n = 0 THEN <<>>
    ELSE LET patterns == crisis_patterns[CrisisTypes[n]]
             score == CalculateCrisisScore(text_lower, patterns)
         IN  IF OverThreshold(score)
             THEN Append(TextCrises(text_lower, n - 1),
                         [type |-> CrisisTypes[n], score |-> score, urgency |-> patterns.urgency])
             ELSE TextCrises(text_lower, n - 1)

\* highest_urgency after the loop: the first of the highest priority among
\* the flagged types, "None" when nothing is flagged
HighestUrgency(crises) ==
    IF crises = <<>> THEN "None"
    ELSE LET best == CHOOSE i \in DOMAIN crises :
                        /\ \A j \in DOMAIN crises :
                              UrgencyPriority(crises[j].urgency) <= UrgencyPriority(crises[i].urgency)
                        /\ \A j \in 1..(i - 1) :
                              UrgencyPriority(crises[j].urgency) < UrgencyPriority(crises[i].urgency)
         IN  crises[best].urgency

\* _detect_contextual_crisis; the context is a one-element sequence whose
\* confidence is a number in units of 1/3000
DetectContextualCrisis(emotion_context) ==
    LET risk_level == emotion_context.risk_level
        confidence == emotion_context.confidence
    IN  IF risk_level = "crisis" /\ confidence > 2100
        THEN <<[type |-> "contextual_crisis", score |-> confidence, urgency |-> "immediate"]>>
        ELSE IF risk_level = "high" /\ confidence > 2400
        THEN <<[type |-> "contextual_high_risk", score |-> confidence, urgency |-> "urgent"]>>
        ELSE <<>>

\* _get_crisis_resources: which parts of the resources are filled
GetCrisisResources(detected_crises) ==
    LET crisis_types == {detected_crises[i].type : i \in DOMAIN detected_crises}
        urgencies == {detected_crises[i].urgency : i \in DOMAIN detected_crises}
    IN  IF detected_crises = <<>> THEN [empty |-> TRUE, immediate_help |-> "none",
                                        professional_resources |-> FALSE,
                                        self_help_techniques |-> FALSE]
        ELSE [empty |-> FALSE,
              immediate_help |-> IF "immediate" \in urgencies THEN "with_911"
                                 ELSE IF "urgent" \in urgencies THEN "hotlines"
                                 ELSE "none",
              professional_resources |->
                  crisis_types \cap {"suicidal_ideation", "self_harm"} # {},
              self_help_techniques |-> "immediate" \notin urgencies]

\* detect_crisis(text, emotion_context); emotion_context is <<>> for None
DetectCrisis(text, emotion_context) ==
    LET text_lower == Lower(text)
        text_crises == TextCrises(text_lower, Len(CrisisTypes))
        highest_urgency == HighestUrgency(text_crises)
        detected_crises ==
            IF emotion_context # <<>>
            THEN text_crises \o DetectContextualCrisis(emotion_context[1])
            ELSE text_crises
    IN  [crisis_detected |-> Len(detected_crises) > 0,
         crisis_types |-> detected_crises,
         highest_urgency |-> highest_urgency,
         immediate_action_needed |-> highest_urgency = "immediate",
         resources_needed |-> GetCrisisResources(detected_crises),
         safety_planning_required |-> Len(detected_crises) > 0]

\* the largest number of fragments a text is made of
MaxFragments == 2      \* fragments in one text given to detect_crisis

\* pieces of text: single keywords, a keyword that holds another, phrases, a
\* phrase that holds a keyword, an entry in upper case, and words of no list
CrisisFragments ==
    {crisis_patterns["severe_depression"].keywords[1],
     crisis_patterns["severe_depression"].keywords[2],
     crisis_patterns["severe_depression"].keywords[8],
     crisis_patterns["severe_depression"].phrases[2],
     crisis_patterns["suicidal_ideation"].keywords[8],
     crisis_patterns["suicidal_ideation"].phrases[3],
     crisis_patterns["self_harm"].keywords[4],
     crisis_patterns["panic_attack"].phrases[3],
     Upper(crisis_patterns["panic_attack"].keywords[5]),
     Chars("happy")}

\* the texts of at most n fragments, a space between two fragments
RECURSIVE CrisisTexts(_)
CrisisTexts(n) ==
    IF n = 0 THEN {<<>>}
    ELSE CrisisTexts(n - 1) \cup
         {IF t = <<>> THEN f ELSE t \o <<" ">> \o f : t \in CrisisTexts(n - 1), f \in CrisisFragments}

\* the emotion contexts: None, and risk levels with confidences around the
\* two limits 0.7 and 0.8
CrisisContexts ==
    {<<>>} \cup {<<[risk_level |-> r, confidence |-> c]>> :
                    r \in {"low", "high", "crisis"}, c \in {2100, 2400, 2700}}

\* a call of detect_crisis
CallDetectCrisis(text, emotion_context) ==
    /\ chat_pc = "idle"
    /\ chat_pc' = "detected"
    /\ op' = [name |-> "detect_crisis", text |-> text, emotion_context |-> emotion_context,
              result |-> DetectCrisis(text, emotion_context)]
    /\ UNCHANGED <<max_history, session_timeout, now, active_sessions, ctx, nuuid, adds, retired, requests>>
    /\ UNCHANGED <<text_emotion, voice_emotion, final_emotion>>

\* the caller goes on; the detector keeps nothing of the call
DetectReturn ==
    /\ chat_pc = "detected"
    /\ chat_pc' = "idle"
    /\ op' = [name |-> "init"]
    /\ UNCHANGED <<max_history, session_timeout, now, active_sessions, ctx, nuuid, adds, retired, requests>>
    /\ UNCHANGED <<text_emotion, voice_emotion, final_emotion>>

InitDetect == InitManager({20}, {3600})

NextDetect ==
    \/ /\ chat_pc = "idle"
       /\ \E text \in CrisisTexts(MaxFragments), emotion_context \in CrisisContexts :
             CallDetectCrisis(text, emotion_context)
    \/ DetectReturn

SpecDetect == InitDetect /\ [][NextDetect]_vars

----------------------------------------------------------------------------
(* Properties of the session store                                          *)

KeyOf(u, s) == u \o <<":">> \o s

Called(u, s) ==
    /\ op'.name = "get_or_create_context"
    /\ op'.user_id = u
    /\ op'.session_id = s

Blank(context) ==
    /\ context.conversation_history = <<>>
    /\ context.emotion_history = <<>>
    /\ context.risk_flags = <<>>
    /\ context.therapeutic_goals = <<>>

\* a call that repeats the previous call's arguments while the context the
\* previous call returned is within the timeout returns that context, untouched
RepeatedCall(u, s) ==
    (/\ op.name = "get_or_create_context" /\ op.user_id = u /\ op.session_id = s
     /\ Called(u, s)
     /\ now - ctx[op.result].last_interaction <= session_timeout)
    => (op'.result = op.result /\ ctx' = ctx)

\* a call for a key whose stored context is within the timeout returns that
\* context, untouched, and leaves the store alone
LiveCall(u, s) ==
    (/\ Called(u, s)
     /\ KeyOf(u, s) \in DOMAIN active_sessions
     /\ now - ctx[active_sessions[KeyOf(u, s)]].last_interaction <= session_timeout)
    => /\ op'.result = active_sessions[KeyOf(u, s)]
       /\ ctx' = ctx
       /\ active_sessions' = active_sessions

\* a call for a key whose stored context is past the timeout returns a new,
\* blank context that replaces the old one under the key
ExpiredCall(u, s) ==
    (/\ Called(u, s)
     /\ KeyOf(u, s) \in DOMAIN active_sessions
     /\ now - ctx[active_sessions[KeyOf(u, s)]].last_interaction > session_timeout)
    => /\ op'.result \notin DOMAIN ctx
       /\ op'.result \in DOMAIN ctx'
       /\ Blank(ctx'[op'.result])
       /\ active_sessions' = [k \in DOMAIN active_sessions |->
                                IF k = KeyOf(u, s) THEN op'.result ELSE active_sessions[k]]
       /\ \A c \in DOMAIN ctx : ctx'[c] = ctx[c]
       /\ retired' = retired \cup {active_sessions[KeyOf(u, s)]}

\* no call returns a context that was replaced after it had expired
NeverResurrected ==
    op'.name = "get_or_create_context" =>
        /\ op'.result \notin retired'
        /\ \A k \in DOMAIN active_sessions' : active_sessions'[k] \notin retired'

\* C4 as stated: for every (user_id, session_id), a repeated call within the
\* timeout returns the very same context intact, the first call after the
\* timeout returns a new blank context that replaces the old one, and the
\* expired context is never returned again.
C4_AsStated ==
    [][/\ \A u \in UserIds, s \in SessionIds \cup {<<>>} : RepeatedCall(u, s)
       /\ \A u \in UserIds, s \in SessionIds : LiveCall(u, s) /\ ExpiredCall(u, s)
       /\ NeverResurrected]_vars

\* C4: for every user_id and every non-empty session_id, a call within the
\* timeout returns the very same context intact, the first call after the
\* timeout returns a new blank context that replaces the old one under the
\* key, and the expired context is never returned again.
C4_SessionExpiry ==
    [][/\ \A u \in UserIds, s \in SessionIds :
            RepeatedCall(u, s) /\ LiveCall(u, s) /\ ExpiredCall(u, s)
       /\ NeverResurrected]_vars

\* an expired context was replaced, the new one got an interaction, and a
\* later call within the timeout returned the new one with its history
C4_Witness ==
    /\ op.name = "get_or_create_context"
    /\ ~op.created
    /\ retired # {}
    /\ op.result \notin retired
    /\ ctx[op.result].conversation_history # <<>>
    /\ ctx[op.result].risk_flags # <<>>
    /\ ctx[op.result].therapeutic_goals # <<>>
    /\ now > ctx[op.result].last_interaction

----------------------------------------------------------------------------
(* Properties of the history window and the risk flags                      *)

Min(a, b) == IF a <= b THEN a ELSE b

JustAdded == op.name = "add_interaction"

\* the context add_interaction has just returned
Touched == ctx[op.context]

LastUpTo(s, n) == SubSeq(s, Len(s) - Min(n, Len(s)) + 1, Len(s))

NegativeAmong(s) ==
    Cardinality({i \in DOMAIN s : s[i].primary_emotion \in {"depressed", "anxious", "stressed"}})

RiskRank(r) == CASE r = "low" -> 0 [] r = "medium" -> 1 [] r = "high" -> 2 [] r = "crisis" -> 3

NonDecreasing(s) == \A i \in 1..(Len(s) - 1) : RiskRank(s[i].risk_level) <= RiskRank(s[i + 1].risk_level)

HasFlag(context, flag) == \E i \in DOMAIN context.risk_flags : context.risk_flags[i] = flag

\* the emotion analyses of the last n add_interaction calls, given that the
\* context held at least n - 1 entries before the last call
LastAdded(n) == LastUpTo(op.before.emotion_history, n - 1) \o <<op.analysis>>

\* C2: after any sequence of add_interaction calls the two histories have the
\* same length, at most max_history, and hold exactly the most recent
\* min(n, max_history) interactions in arrival order, entry i of one being the
\* same interaction as entry i of the other.
C2_LockstepWindow ==
    \A c \in DOMAIN ctx :
        LET ch == ctx[c].conversation_history
            eh == ctx[c].emotion_history
            k  == Min(adds, max_history)
        IN  /\ Len(ch) = Len(eh)
            /\ Len(ch) <= max_history
            /\ Len(ch) = k
            /\ \A i \in 1..Len(ch) :
                  /\ ch[i].user = ToString(adds - k + i)
                  /\ i <= Len(eh) => /\ eh[i].emotional_indicators = <<ToString(adds - k + i)>>
                                     /\ eh[i].primary_emotion = ch[i].emotion
                                     /\ eh[i].risk_level = ch[i].risk_level

\* max_history = 3 and 5 additions: messages 3, 4, 5 are left in both lists
C2_Witness ==
    /\ max_history = 3 /\ adds = 5 /\ Len(ctx) = 1
    /\ [i \in 1..3 |-> ctx[1].conversation_history[i].user] = <<"3", "4", "5">>
    /\ [i \in 1..3 |-> ctx[1].emotion_history[i].emotional_indicators[1]] = <<"3", "4", "5">>

\* C3: immediately after an add_interaction whose analysis has risk CRISIS,
\* risk_flags contains session_crisis_detected and
\* should_suggest_professional_help returns true.
C3_CrisisSuggestsHelp ==
    (JustAdded /\ op.analysis.risk_level = "crisis") =>
        /\ HasFlag(Touched, "session_crisis_detected")
        /\ ShouldSuggestProfessionalHelp(Touched)

\* a CRISIS analysis added to a context whose earlier entries were not CRISIS
C3_Witness ==
    /\ JustAdded /\ op.analysis.risk_level = "crisis"
    /\ Len(op.before.emotion_history) >= 2
    /\ \A i \in DOMAIN op.before.emotion_history : op.before.emotion_history[i].risk_level = "high"
    /\ ~HasFlag(op.before, "session_crisis_detected")
    /\ ShouldSuggestProfessionalHelp(Touched)

\* C8: after add_interaction risk_flags is determined by the retained
\* emotion_history and the analysis just added: no duplicates, only the three
\* session tags, and each tag present exactly when its condition holds now.
C8_FlagsRecomputed ==
    JustAdded =>
        LET flags == Touched.risk_flags
            eh == Touched.emotion_history
        IN  /\ \A i, j \in DOMAIN flags : flags[i] = flags[j] => i = j
            /\ \A i \in DOMAIN flags :
                  flags[i] \in {"session_crisis_detected", "session_persistent_negative_mood",
                                "session_escalating_risk"}
            /\ HasFlag(Touched, "session_crisis_detected") <=> op.analysis.risk_level = "crisis"
            /\ HasFlag(Touched, "session_persistent_negative_mood") <=> NegativeAmong(LastUpTo(eh, 5)) >= 4
            /\ HasFlag(Touched, "session_escalating_risk") <=>
                  (Len(eh) >= 3 /\ NonDecreasing(LastUpTo(eh, 3)))

\* all three tags were set before the call and none is after it
C8_Witness ==
    /\ JustAdded
    /\ Len(op.before.risk_flags) = 3
    /\ Touched.risk_flags = <<>>

\* the rule of session_persistent_negative_mood
PersistentRule ==
    HasFlag(Touched, "session_persistent_negative_mood") <=>
        NegativeAmong(LastUpTo(Touched.emotion_history, 5)) >= 4

\* the last five additions were four negative ones and a happy one
FourNegativeOneHappy ==
    /\ Len(op.before.emotion_history) >= 4
    /\ NegativeAmong(LastAdded(5)) = 4
    /\ \E i \in 1..5 : LastAdded(5)[i].primary_emotion = "happy"

\* C9 as stated: the flag is set iff at least 4 of the last 5 retained entries
\* are negative, and five additions of which four are negative and one is
\* happy, in any position, set the flag.
C9_AsStated ==
    JustAdded => /\ PersistentRule
                 /\ FourNegativeOneHappy => HasFlag(Touched, "session_persistent_negative_mood")

\* C9: the flag is set iff at least 4 of the last 5 retained entries (all of
\* them when fewer than 5) are negative; five additions of which four are
\* negative and one is happy, in any position, set the flag when max_history
\* is at least 5.
C9_PersistentNegativeMood ==
    JustAdded => /\ PersistentRule
                 /\ (max_history >= 5 /\ FourNegativeOneHappy) =>
                        HasFlag(Touched, "session_persistent_negative_mood")

\* the happy one came second of five, and the flag is set
C9_Witness ==
    /\ JustAdded /\ max_history >= 5 /\ FourNegativeOneHappy
    /\ LastAdded(5)[2].primary_emotion = "happy"
    /\ LastAdded(5)[5].primary_emotion = "stressed"
    /\ HasFlag(Touched, "session_persistent_negative_mood")

\* the rule of session_escalating_risk
EscalatingRule ==
    HasFlag(Touched, "session_escalating_risk") <=>
        (Len(Touched.emotion_history) >= 3 /\ NonDecreasing(LastUpTo(Touched.emotion_history, 3)))

\* the last three additions were all of low risk
ThreeLowInARow ==
    /\ Len(op.before.emotion_history) >= 2
    /\ \A i \in 1..3 : LastAdded(3)[i].risk_level = "low"

\* C10 as stated: the flag is set iff at least 3 entries are retained and the
\* last three risks are non-decreasing, and three low-risk interactions in a
\* row set the flag.
C10_AsStated ==
    JustAdded => /\ EscalatingRule
                 /\ ThreeLowInARow => HasFlag(Touched, "session_escalating_risk")

\* C10: the flag is set iff at least 3 entries are retained and the last three
\* risks are non-decreasing; three low-risk interactions in a row set the flag
\* when max_history is at least 3.
C10_EscalatingRisk ==
    JustAdded => /\ EscalatingRule
                 /\ (max_history >= 3 /\ ThreeLowInARow) =>
                        HasFlag(Touched, "session_escalating_risk")

\* three low-risk interactions in a row, retained, with the flag set
C10_Witness ==
    /\ JustAdded /\ max_history >= 3 /\ ThreeLowInARow
    /\ HasFlag(Touched, "session_escalating_risk")

----------------------------------------------------------------------------
(* Properties of the text analyzer and the fusion                           *)

\* analyze_text_emotion has just returned text_emotion
JustAnalyzedText == op.name = "analyze_text_emotion"

\* the keyword occurs in the text when the case of the letters is ignored
OccursIgnoringCase(keyword, text) ==
    \E i \in 1..(Len(text) - Len(keyword) + 1) :
        \A j \in DOMAIN keyword : LowerChar(text[i + j - 1]) = keyword[j]

HasCrisisKeyword(text) ==
    \E k \in DOMAIN crisis_keywords : OccursIgnoringCase(crisis_keywords[k], text)

\* fuse_emotions has just returned final_emotion
Fused == chat_pc = "fused"

\* C1: when analyze_text_emotion has run on a message that contains a crisis
\* keyword as a substring, in any letter case, the analysis it returns has
\* risk level crisis, whether the model call raised, answered with something
\* malformed, or answered with a payload reporting any risk level.
C1_CrisisKeywordOverride ==
    JustAnalyzedText /\ HasCrisisKeyword(op.text) => text_emotion[1].risk_level = "crisis"

\* a keyword in capitals inside a longer message, and a well-formed payload
\* that reports low risk
C1_Witness ==
    /\ JustAnalyzedText /\ HasCrisisKeyword(op.text)
    /\ op.text # Lower(op.text)
    /\ op.outcome.kind = "json" /\ op.outcome.value.type = "object"
    /\ op.outcome.value.fields.risk_level = JStr(Chars("low"))
    /\ text_emotion[1].risk_level = "crisis"

\* C5: when fuse_emotions has run with a voice analysis present, the risk
\* level of its result is the higher of the voice risk and the text risk in
\* the order low < medium < high < crisis, so it is below neither.
C5_FusedRiskIsMax ==
    Fused /\ voice_emotion # <<>> =>
        LET a == voice_emotion[1].risk_level
            b == text_emotion[1].risk_level
            fused == final_emotion[1].risk_level
        IN  /\ fused \in {a, b}
            /\ RiskRank(fused) >= RiskRank(a)
            /\ RiskRank(fused) >= RiskRank(b)

\* the voice risk is the higher one
C5_Witness ==
    /\ Fused /\ voice_emotion # <<>>
    /\ voice_emotion[1].risk_level = "high"
    /\ text_emotion[1].risk_level = "medium"
    /\ final_emotion[1].risk_level = "high"

\* C6: every analysis that fuse_emotions returns has a confidence between 0
\* and 1 (0 and 3000 in the units of the model).
C6_ConfidenceInUnitInterval ==
    Fused => final_emotion[1].confidence >= 0 /\ final_emotion[1].confidence <= 3000

\* C7: when fuse_emotions has run without a voice analysis, its result equals
\* the text analysis in every field.
C7_AbsentVoiceReturnsText ==
    Fused /\ voice_emotion = <<>> =>
        \A field \in {"primary_emotion", "confidence", "risk_level", "emotional_indicators",
                      "suggested_technique", "intensity", "patterns"} :
            final_emotion[1][field] = text_emotion[1][field]

\* no voice analysis, and a text analysis built from the model's payload
C7_Witness ==
    /\ Fused /\ voice_emotion = <<>>
    /\ final_emotion = text_emotion
    /\ text_emotion[1].primary_emotion = "depressed"
    /\ text_emotion[1].patterns = <<"p1">>

----------------------------------------------------------------------------
(* Properties of should_suggest_professional_help                           *)

\* should_suggest_professional_help has just returned
JustAsked == op.name = "should_suggest_professional_help"

\* the session of the context has lasted more than two hours and the context
\* retains more than 15 interactions
LongAndBusy(context) ==
    now - context.session_start > 2 * 3600 /\ Len(context.conversation_history) > 15

\* C11: should_suggest_professional_help returns true exactly when risk_flags
\* holds session_crisis_detected, or holds both session_persistent_negative_mood
\* and session_escalating_risk, or the session has lasted more than 2 hours and
\* more than 15 interactions are retained; and the call leaves every context
\* and the session store as they were.
C11_SuggestHelpRule ==
    /\ [](JustAsked =>
            (op.result <=>
                \/ HasFlag(ctx[op.context], "session_crisis_detected")
                \/ /\ HasFlag(ctx[op.context], "session_persistent_negative_mood")
                   /\ HasFlag(ctx[op.context], "session_escalating_risk")
                \/ LongAndBusy(ctx[op.context])))
    /\ [][op'.name = "should_suggest_professional_help" =>
            ctx' = ctx /\ active_sessions' = active_sessions]_vars

\* the answer is true on the strength of the long session alone
C11_Witness ==
    /\ JustAsked /\ op.result
    /\ ~HasFlag(ctx[op.context], "session_crisis_detected")
    /\ ~HasFlag(ctx[op.context], "session_persistent_negative_mood")
    /\ LongAndBusy(ctx[op.context])

----------------------------------------------------------------------------
(* Properties of cleanup_expired_sessions                                   *)

\* the keys of the store whose context was last used more than session_timeout ago
Overdue == {k \in DOMAIN active_sessions :
                now - ctx[active_sessions[k]].last_interaction > session_timeout}

\* C12: a call of cleanup_expired_sessions removes from the store exactly the
\* entries whose last_interaction is earlier than now - session_timeout, returns
\* how many it removed, and leaves every other entry and every context as it
\* was; the entries it removes are exactly those that get_or_create_context
\* would treat as expired at that instant.
C12_SweepRemovesExpired ==
    [][op'.name = "cleanup_expired_sessions" =>
        /\ DOMAIN active_sessions' = DOMAIN active_sessions \ Overdue
        /\ \A k \in DOMAIN active_sessions' : active_sessions'[k] = active_sessions[k]
        /\ ctx' = ctx
        /\ op'.result = Cardinality(Overdue)
        /\ \A k \in DOMAIN active_sessions : k \in Overdue <=> Expired(active_sessions[k])]_vars

\* the sweep has removed one entry and left another, used at the cutoff, in the store
C12_Witness ==
    /\ op.name = "cleanup_expired_sessions" /\ op.result = 1
    /\ \E k \in DOMAIN active_sessions :
            ctx[active_sessions[k]].last_interaction = now - session_timeout
    /\ Len(ctx) = 2

----------------------------------------------------------------------------
(* Properties of the therapeutic goals                                      *)

GoalTable ==
    [anxious |-> "anxiety_management", depressed |-> "mood_improvement",
     stressed |-> "stress_reduction", angry |-> "anger_management"]

\* the goal of the analysis that was just added is a fourth distinct one
FourthGoal ==
    /\ JustAdded
    /\ Len(op.before.therapeutic_goals) = 3
    /\ op.analysis.primary_emotion \in DOMAIN GoalTable
    /\ \A i \in 1..3 : op.before.therapeutic_goals[i] # GoalTable[op.analysis.primary_emotion]

\* C13: therapeutic_goals always has at most 3 entries, no entry twice, and
\* only goals of the table; an analysis whose primary emotion is not in the
\* table leaves the goals as they were; and when a fourth distinct goal is
\* appended, the goal inserted earliest is dropped and the others keep their order.
C13_GoalsBounded ==
    /\ \A c \in DOMAIN ctx :
          LET goals == ctx[c].therapeutic_goals
          IN  /\ Len(goals) <= 3
              /\ \A i, j \in DOMAIN goals : goals[i] = goals[j] => i = j
              /\ \A i \in DOMAIN goals : \E e \in DOMAIN GoalTable : goals[i] = GoalTable[e]
    /\ JustAdded /\ op.analysis.primary_emotion \notin DOMAIN GoalTable
          => Touched.therapeutic_goals = op.before.therapeutic_goals
    /\ FourthGoal
          => Touched.therapeutic_goals =
                <<op.before.therapeutic_goals[2], op.before.therapeutic_goals[3],
                  GoalTable[op.analysis.primary_emotion]>>

\* a goal that was dropped earlier comes back as the fourth distinct goal
C13_Witness ==
    /\ FourthGoal
    /\ Touched.therapeutic_goals[3] = "anxiety_management"
    /\ op.before.therapeutic_goals[1] = "mood_improvement"

----------------------------------------------------------------------------
(* Properties of the voice scorer                                           *)

\* analyze_voice_features has just returned voice_emotion[1] for op.voice_features
VoiceAnalyzed == chat_pc = "voice_analyzed"

\* the value of a feature, the documented default standing in for a missing key
Given(key) ==
    IF key \in DOMAIN op.voice_features THEN op.voice_features[key]
    ELSE CASE key = "pitch_mean" -> 150 [] key = "pitch_variance" -> 50
           [] key = "speech_rate" -> 150 [] key = "energy" -> 50
           [] key = "avg_pause_duration" -> 50

Weight(condition, tenths) == IF condition THEN tenths ELSE 0

\* the scores of the rule table for op.voice_features, in tenths: each is the
\* sum of the weights of the predicates that hold, cut at 10
TableScore(e) ==
    LET pitch == Given("pitch_mean")
        variance == Given("pitch_variance")
        rate == Given("speech_rate")
        energy == Given("energy")
        pause == Given("avg_pause_duration")
    IN  Min(10,
          CASE e = "anxious" ->
                 Weight(variance > 75, 3) + Weight(rate > 180, 3) + Weight(pitch > 200, 2)
                 + Weight(energy > 60 /\ (variance > 60 \/ rate > 170), 2)
            [] e = "depressed" ->
                 Weight(energy < 30, 4) + Weight(pitch < 120, 3) + Weight(pause > 150, 3)
                 + Weight(rate < 120, 2)
            [] e = "stressed" ->
                 Weight(rate > 200 \/ rate < 100, 3) + Weight(variance > 80, 3)
                 + Weight(energy > 70 /\ variance > 60, 2)
                 + Weight(40 < energy /\ energy < 70 /\ (rate > 190 \/ rate < 110), 2)
            [] e = "angry" ->
                 Weight(energy > 80, 4) + Weight(pitch > 180, 3) + Weight(rate > 190, 3)
            [] e = "happy" ->
                 Weight(60 < energy /\ energy < 90, 3) + Weight(160 < pitch /\ pitch < 200, 2)
                 + Weight(150 < rate /\ rate < 180, 2) + Weight(40 < variance /\ variance < 70, 3)
            [] e = "calm" ->
                 Weight(25 < variance /\ variance < 55, 3) + Weight(140 < rate /\ rate < 170, 3)
                 + Weight(40 < energy /\ energy < 70, 2) + Weight(30 < pause /\ pause < 80, 2))

\* the six emotions in the order in which they are listed
Listed == <<"anxious", "depressed", "stressed", "angry", "happy", "calm">>

\* the features of the scenario: pitch_mean 110, pitch_variance 15,
\* speech_rate 90, energy 0.1, and no pause given
CrisisScenario ==
    /\ DOMAIN op.voice_features = {"pitch_mean", "pitch_variance", "speech_rate", "energy"}
    /\ op.voice_features["pitch_mean"] = 110 /\ op.voice_features["pitch_variance"] = 15
    /\ op.voice_features["speech_rate"] = 90 /\ op.voice_features["energy"] = 10

\* C14: whenever the depressed score of the features exceeds 0.8 while energy
\* is below 0.2 and speech_rate below 100, analyze_voice_features returns risk
\* level crisis with primary emotion depressed; the scenario with pitch_mean
\* 110, pitch_variance 15, speech_rate 90, energy 0.1 and the pause defaulted
\* is such an input.
C14_VoiceCrisis ==
    VoiceAnalyzed =>
        /\ (TableScore("depressed") > 8 /\ Given("energy") < 20 /\ Given("speech_rate") < 100)
              => /\ voice_emotion[1].risk_level = "crisis"
                 /\ voice_emotion[1].primary_emotion = "depressed"
        /\ CrisisScenario
              => /\ voice_emotion[1].risk_level = "crisis"
                 /\ voice_emotion[1].primary_emotion = "depressed"

C14_Witness ==
    /\ VoiceAnalyzed /\ CrisisScenario
    /\ voice_emotion[1].risk_level = "crisis"
    /\ voice_emotion[1].primary_emotion = "depressed"

\* the features are the defaults, given in full or with every key missing
AllDefault == \A key \in FeatureKeys : Given(key) = IF key \in {"energy", "avg_pause_duration"}
                                                      THEN 50 ELSE IF key = "pitch_variance" THEN 50
                                                      ELSE 150

\* C15: the primary emotion that analyze_voice_features returns has the
\* highest score of the six, and every emotion listed before it has a lower
\* score; the confidence is that score; and the default features, given or
\* missing, yield calm at low risk.
C15_VoicePrimaryIsArgmax ==
    VoiceAnalyzed =>
        /\ \E i \in DOMAIN Listed :
              /\ voice_emotion[1].primary_emotion = Listed[i]
              /\ \A j \in DOMAIN Listed : TableScore(Listed[j]) <= TableScore(Listed[i])
              /\ \A j \in 1..(i - 1) : TableScore(Listed[j]) < TableScore(Listed[i])
              /\ voice_emotion[1].confidence = 300 * TableScore(Listed[i])
        /\ AllDefault => /\ voice_emotion[1].primary_emotion = "calm"
                         /\ voice_emotion[1].risk_level = "low"

\* two emotions share the highest score and the one listed first is returned
C15_Witness ==
    /\ VoiceAnalyzed
    /\ voice_emotion[1].primary_emotion = "anxious"
    /\ TableScore("anxious") = TableScore("angry")
    /\ TableScore("anxious") >= 6

\* the risk level that the rules give for op.voice_features, taken in order
RuleRisk ==
    IF TableScore("depressed") > 8 /\ Given("energy") < 20 /\ Given("speech_rate") < 100
    THEN "crisis"
    ELSE IF \/ TableScore("anxious") > 8 /\ Given("avg_pause_duration") > 200
            \/ Cardinality({i \in DOMAIN Listed : TableScore(Listed[i]) > 7}) >= 2
    THEN "high"
    ELSE IF \E e \in {"depressed", "anxious", "stressed"} : TableScore(e) > 6
    THEN "medium"
    ELSE "low"

\* C16: the risk level that analyze_voice_features returns is the one of the
\* first rule that matches: crisis, then high, then medium, otherwise low.
C16_VoiceRiskRules ==
    VoiceAnalyzed => voice_emotion[1].risk_level = RuleRisk

----------------------------------------------------------------------------
(* Properties of the text analyzer when the model fails                     *)

\* the model call raised, or its answer was not JSON
ModelCallFailed == op.outcome.kind \in {"error", "not_json"}

\* the fraction of the keywords of an emotion that occur in the lower-cased
\* text, as <<hits, number of keywords>>
Fraction(e, text) ==
    <<Cardinality({k \in DOMAIN emotion_keywords[e] :
                      OccursIgnoringCase(emotion_keywords[e][k], text)}),
      Len(emotion_keywords[e])>>

\* the fraction a is lower than the fraction b
Lower_than(a, b) == a[1] * b[2] < b[1] * a[2]

NoKeyword(text) == \A e \in DOMAIN emotion_keywords : Fraction(e, text)[1] = 0

\* the analysis is the keyword-fallback analysis of the text: the emotion
\* with the highest fraction, indicators and patterns naming the fallback
KeywordFallbackOf(analysis, text) ==
    /\ analysis.emotional_indicators = <<"Keyword-based analysis">>
    /\ analysis.patterns = <<"fallback_analysis">>
    /\ \/ NoKeyword(text)
       \/ /\ analysis.primary_emotion \in DOMAIN emotion_keywords
          /\ \A e \in DOMAIN emotion_keywords :
                ~Lower_than(Fraction(analysis.primary_emotion, text), Fraction(e, text))

\* C17: analyze_text_emotion returns to its caller for every outcome of the
\* model call - an error, an answer that is not JSON, JSON that is not an
\* object, an object with missing or wrongly typed members - and what it
\* returns has a primary emotion and a risk level.
C17_TextAnalysisNeverRaises ==
    JustAnalyzedText =>
        /\ chat_pc = "text"
        /\ Len(text_emotion) = 1
        /\ text_emotion[1].primary_emotion \in EmotionState
        /\ text_emotion[1].risk_level \in RiskLevel

\* the model answered with an object whose crisis_indicators is null
C17_Witness ==
    /\ JustAnalyzedText /\ chat_pc = "text"
    /\ op.outcome.kind = "json" /\ op.outcome.value.type = "object"
    /\ op.outcome.value.fields.crisis_indicators = JNull
    /\ text_emotion[1].primary_emotion \in EmotionState

\* C18: when the model call raised or its answer was not JSON,
\* analyze_text_emotion returns the keyword-fallback analysis of the text.
C18_FailedCallGivesKeywordFallback ==
    JustAnalyzedText /\ ModelCallFailed => KeywordFallbackOf(text_emotion[1], op.text)

\* the analysis was produced by the keyword fallback
OnFallbackPath ==
    /\ JustAnalyzedText /\ chat_pc = "text"
    /\ text_emotion[1].patterns = <<"fallback_analysis">>

\* C19: the keyword fallback returns the emotion whose keywords occur in the
\* lower-cased text in the highest fraction; when no emotion keyword occurs
\* it returns calm with confidence 0.3; its risk level is crisis if the text
\* holds a crisis keyword and low otherwise.
C19_KeywordFallbackRule ==
    OnFallbackPath =>
        /\ IF NoKeyword(op.text)
           THEN /\ text_emotion[1].primary_emotion = "calm"
                /\ text_emotion[1].confidence = 900
           ELSE /\ text_emotion[1].primary_emotion \in DOMAIN emotion_keywords
                /\ \A e \in DOMAIN emotion_keywords :
                      ~Lower_than(Fraction(text_emotion[1].primary_emotion, op.text),
                                  Fraction(e, op.text))
        /\ text_emotion[1].risk_level =
              IF HasCrisisKeyword(op.text) THEN "crisis" ELSE "low"

\* C20: every analysis returned by analyze_text_emotion with risk level crisis
\* suggests crisis_intervention and every one with risk level high suggests
\* safety_planning, on the model path and on the keyword-fallback path.
C20_TechniqueFollowsRisk ==
    JustAnalyzedText /\ chat_pc = "text" =>
        /\ text_emotion[1].risk_level = "crisis" =>
              text_emotion[1].suggested_technique = "crisis_intervention"
        /\ text_emotion[1].risk_level = "high" =>
              text_emotion[1].suggested_technique = "safety_planning"

----------------------------------------------------------------------------
(* Properties of the technique chosen by the fusion                         *)

\* fuse_emotions has just returned and was given a voice analysis
FusedWithVoice == Fused /\ voice_emotion # <<>>

\* the technique both analyses suggest if they suggest the same one, the
\* text analysis's technique otherwise
AgreedOrTextTechnique ==
    IF voice_emotion[1].suggested_technique = text_emotion[1].suggested_technique
    THEN voice_emotion[1].suggested_technique
    ELSE text_emotion[1].suggested_technique

\* C21 as stated: with a voice analysis present the fused technique is the
\* technique both analyses suggested, or the text analysis's technique when
\* they differ, whatever the risk levels of the two analyses.
C21_TechniqueAgreedOrText_Original ==
    FusedWithVoice => final_emotion[1].suggested_technique = AgreedOrTextTechnique

\* C21 amended: with a voice analysis present the fused technique is
\* crisis_intervention when the fused risk level is crisis, safety_planning
\* when it is high, and otherwise the technique both analyses suggested or,
\* when they differ, the text analysis's technique.
C21_TechniqueAgreedOrText ==
    FusedWithVoice =>
        final_emotion[1].suggested_technique =
            CASE final_emotion[1].risk_level = "crisis" -> "crisis_intervention"
              [] final_emotion[1].risk_level = "high" -> "safety_planning"
              [] OTHER -> AgreedOrTextTechnique

\* the two analyses suggest different techniques at a fused risk below high
C21_Witness ==
    /\ FusedWithVoice
    /\ final_emotion[1].risk_level \in {"low", "medium"}
    /\ voice_emotion[1].suggested_technique # text_emotion[1].suggested_technique
    /\ final_emotion[1].suggested_technique = text_emotion[1].suggested_technique

----------------------------------------------------------------------------
(* Properties of response generation                                        *)

\* generate_therapeutic_response has just been called
JustGenerated == op.name = "generate_therapeutic_response"

\* the emotion the canned message and the technique are keyed by
CannedKey(emotion) ==
    IF emotion \in {"anxious", "depressed", "stressed", "angry"} THEN emotion ELSE "unknown"

\* the technique mapped to each key
CannedTechnique(key) ==
    CASE key = "anxious" -> "breathing_exercise"
      [] key = "depressed" -> "behavioral_activation"
      [] key = "stressed" -> "grounding_technique"
      [] key = "angry" -> "emotion_regulation"
      [] OTHER -> "validation"

\* the result is the fallback result for the context
IsFallbackFor(result, emotion_context) ==
    /\ result.response # ""
    /\ result.response = fallback_responses[CannedKey(emotion_context.primary_emotion)]
    /\ result.suggested_technique = CannedTechnique(CannedKey(emotion_context.primary_emotion))
    /\ result.professional_help_needed = (emotion_context.risk_level \in {"high", "crisis"})

\* C22: generate_therapeutic_response never raises, and whenever the model
\* call fails it returns the fallback result: the canned message for the
\* context's primary emotion, the technique mapped to it, and
\* professional_help_needed true exactly at risk high or crisis.
C22_GenerateNeverRaises ==
    JustGenerated =>
        /\ ~op.raised
        /\ op.generation.kind = "error" => IsFallbackFor(op.result, op.emotion_context)

----------------------------------------------------------------------------
(* Properties of the chat pipeline                                          *)

\* the request has ended, with a response or with status 500
Ended(r) == requests[r].pc \in {"done", "failed"}

\* add_interaction has just run for the request
JustRecorded(r) == op.name = "add_interaction" /\ op.request = r

\* the last entries of the histories of the request's context hold the
\* request's message, the response text and the fused analysis, and the
\* crisis flag follows the fused risk level
Recorded(r) ==
    LET context == ctx[requests[r].context]
        final == requests[r].final_emotion[1]
        n == Len(context.conversation_history)
    IN  /\ n > 0 /\ Len(context.emotion_history) = n
        /\ context.conversation_history[n].user = requests[r].message
        /\ context.conversation_history[n].assistant = requests[r].response[1].response
        /\ context.conversation_history[n].emotion = final.primary_emotion
        /\ context.conversation_history[n].risk_level = final.risk_level
        /\ context.emotion_history[n] = final
        /\ InList("session_crisis_detected", context.risk_flags) <=> final.risk_level = "crisis"

\* C23: once the fused analysis of a chat request has been computed, the
\* request ends with add_interaction, also when response generation fails:
\* the message, the response text (the fallback text after a failure) and the
\* fused analysis are recorded and the risk flags recomputed.
C23_AnalysisNotLost ==
    \A r \in DOMAIN requests :
        /\ Ended(r) /\ requests[r].final_emotion # <<>> => requests[r].pc = "done"
        /\ JustRecorded(r) =>
              /\ Recorded(r)
              /\ requests[r].generation = "error" =>
                    requests[r].response[1].response =
                        fallback_responses[CannedKey(requests[r].final_emotion[1].primary_emotion)]

\* C28: every chat request that completes and whose message holds a crisis
\* keyword returns risk level crisis and suggests professional help, whatever
\* the outcomes of the two model calls, with or without voice features, and
\* whatever was recorded in the session before.
C28_CrisisEndToEnd ==
    \A r \in DOMAIN requests :
        requests[r].pc = "done" /\ HasCrisisKeyword(requests[r].message) =>
            /\ requests[r].response[1].risk_level = "crisis"
            /\ requests[r].response[1].professional_help_suggested

\* a second request of a session, with voice features, a crisis keyword in
\* upper case and both model calls failing, has completed
C28_Witness ==
    \E r \in DOMAIN requests :
        /\ requests[r].pc = "done" /\ requests[r].count = 2
        /\ HasCrisisKeyword(requests[r].message)
        /\ requests[r].voice_features # <<>>
        /\ requests[r].generation = "error"
        /\ requests[r].summary > 0
        /\ requests[r].final_emotion[1].patterns = <<"analysis_unavailable">>
        /\ requests[r].response[1].professional_help_suggested

\* the history the request read for its prompt holds every interaction the
\* context held just before the request's own add_interaction
ReadAllEarlier(r) ==
    /\ Len(requests[r].history) >= Len(op.before.conversation_history)
    /\ \A i \in DOMAIN op.before.conversation_history :
          requests[r].history[i].user = op.before.conversation_history[i].user

\* the request's add_interaction went to the context stored under its key
AppliedToStored(r) ==
    LET key == KeyOf(requests[r].user_id, requests[r].session_id)
    IN  key \in DOMAIN active_sessions /\ active_sessions[key] = op.context

\* C24: concurrent chat requests for the same user and session are
\* serialized: when a request's add_interaction runs, the history the request
\* read holds the interaction of every request whose add_interaction came
\* before, and the interaction goes to the context stored under the key at
\* that moment, also after a deletion or an expiry replacement in between.
C24_SameKeySerialized ==
    \A r \in DOMAIN requests : JustRecorded(r) => ReadAllEarlier(r) /\ AppliedToStored(r)

\* C25: while model calls made for requests of session A are pending, even if
\* they never return, a chat request of another session B takes every one of
\* its steps and completes.
C25_OtherSessionCompletes == <>(requests[ClientB].pc = "done")

----------------------------------------------------------------------------
(* Properties of the session keys                                           *)

\* C26: there is one context per pair of user id and session id: the context
\* get_or_create_context returns for a pair was created for that pair and
\* holds only interactions recorded on that pair, never those of another
\* pair of identifiers.
C26_OneContextPerPair ==
    op.name = "get_or_create_context" =>
        LET context == ctx[op.result]
        IN  /\ context.user_id = op.user_id
            /\ context.session_id = op.session_id
            /\ \A i \in DOMAIN context.conversation_history :
                  context.conversation_history[i].user = MessageOf(op.user_id, op.session_id)

----------------------------------------------------------------------------
(* Properties of the text analysis route                                    *)

\* the text of the request is missing or empty
TextMissingOrEmpty(text) == text.t = "missing" \/ (text.t = "str" /\ text.s = <<>>)

\* C27: a text-analysis request whose text is missing or empty is rejected
\* with status 400, never answered with status 500, and no emotion analysis
\* is run for it.
C27_EmptyTextRejected ==
    op.name = "analyze_text_route" /\ TextMissingOrEmpty(op.text) =>
        /\ op.status = 400
        /\ ~op.analyzed
        /\ op.analysis = <<>>

----------------------------------------------------------------------------
(* Properties of the crisis detector                                        *)

\* the crisis type is among the detected crises of the result
FlaggedType(result, crisis_type) ==
    \E i \in DOMAIN result.crisis_types : result.crisis_types[i].type = crisis_type

\* the emotion context adds a crisis
ContextAddsCrisis(emotion_context) ==
    /\ emotion_context # <<>>
    /\ \/ emotion_context[1].risk_level = "crisis" /\ emotion_context[1].confidence > 2100
       \/ emotion_context[1].risk_level = "high" /\ emotion_context[1].confidence > 2400

\* C29: detect_crisis flags a crisis type from the text if and only if its
\* score max(min(0.3 x matched keywords, 0.8), min(0.5 x matched phrases, 1.0))
\* is strictly greater than 0.3, that is when at least two of its keywords or
\* at least one of its phrases occur; with exactly one keyword and no phrase
\* the score is exactly 0.3 and the type is not flagged, and crisis_detected
\* is true exactly when some type is flagged or the emotion context adds a
\* crisis.
C29_FlaggedAboveThreshold ==
    op.name = "detect_crisis" =>
        /\ \A i \in DOMAIN CrisisTypes :
              LET patterns == crisis_patterns[CrisisTypes[i]]
                  keywords == Matches(patterns.keywords, Lower(op.text))
                  phrases == Matches(patterns.phrases, Lower(op.text))
                  score == Max(MinScore(900 * keywords, 2400), MinScore(1500 * phrases, 3000))
              IN  /\ FlaggedType(op.result, CrisisTypes[i]) <=> score > 900
                  /\ score > 900 <=> (keywords >= 2 \/ phrases >= 1)
                  /\ keywords = 1 /\ phrases = 0 =>
                        score = 900 /\ ~FlaggedType(op.result, CrisisTypes[i])
                  /\ \A j \in DOMAIN op.result.crisis_types :
                        op.result.crisis_types[j].type = CrisisTypes[i] =>
                            op.result.crisis_types[j].score = score
        /\ op.result.crisis_detected <=>
              \/ \E i \in DOMAIN CrisisTypes : FlaggedType(op.result, CrisisTypes[i])
              \/ ContextAddsCrisis(op.emotion_context)

\* a text with exactly one keyword of a type, no phrase of it and nothing of
\* another type, without an emotion context: no crisis is detected; and a
\* call where a type is flagged
C29_Witness ==
    /\ op.name = "detect_crisis"
    /\ op.emotion_context = <<>>
    /\ \E i \in DOMAIN CrisisTypes :
          /\ Matches(crisis_patterns[CrisisTypes[i]].keywords, Lower(op.text)) = 1
          /\ Matches(crisis_patterns[CrisisTypes[i]].phrases, Lower(op.text)) = 0
    /\ ~op.result.crisis_detected

----------------------------------------------------------------------------
(* Properties of the voice risk rule                                        *)

NegativeEmotions == {"anxious", "depressed", "stressed", "angry"}

\* the six emotions that analyze_voice_features scores
ScoredEmotions == NegativeEmotions \cup {"happy", "calm"}

\* the number of the given emotions whose score of the features is above 0.7
ScoresAbove07(emotions) ==
    Cardinality({e \in emotions : FloatGt(VoiceScores(op.voice_features)[e], Float(2100))})

\* pitch_mean 170, pitch_variance 50, speech_rate 160, energy 0.65, pause 0.5
HappyCalmScenario == op.voice_features = VoiceFeatures(170, 50, 160, 65, 50)

\* C30: the rule "at least 2 emotion scores above 0.7 gives HIGH" counts all
\* six scores, happy and calm included: whenever two of the six scores are
\* above 0.7 the risk level is high (or crisis by the crisis rule), also when
\* no score of anxious, depressed, stressed or angry is above 0.7; and for
\* pitch_mean 170, pitch_variance 50, speech_rate 160, energy 0.65, pause 0.5
\* no such score is above 0.7, the primary emotion is happy, the risk level is
\* high and the suggested technique is safety_planning.
C30_HappyAndCalmCount ==
    VoiceAnalyzed =>
        /\ ScoresAbove07(ScoredEmotions) >= 2 =>
              /\ voice_emotion[1].risk_level \in {"high", "crisis"}
              /\ ScoresAbove07(NegativeEmotions) = 0 =>
                    /\ voice_emotion[1].risk_level = "high"
                    /\ voice_emotion[1].suggested_technique = "safety_planning"
        /\ HappyCalmScenario =>
              /\ ScoresAbove07(NegativeEmotions) = 0
              /\ voice_emotion[1].primary_emotion = "happy"
              /\ voice_emotion[1].risk_level = "high"
              /\ voice_emotion[1].suggested_technique = "safety_planning"

C30_Witness ==
    /\ VoiceAnalyzed /\ HappyCalmScenario
    /\ ScoresAbove07(NegativeEmotions) = 0
    /\ ScoresAbove07({"happy", "calm"}) = 2
    /\ voice_emotion[1].primary_emotion = "happy"
    /\ voice_emotion[1].risk_level = "high"
    /\ voice_emotion[1].suggested_technique = "safety_planning"

====
